---- MODULE Spec2Model ----
(***************************************************************************)
(* A model of the configurable web server (anmaso/webserver):             *)
(*   - the configuration store  (internal/config/config.go, Manager)      *)
(*   - the request pipeline     (server: middleware, handleRequest,       *)
(*                               handleDynamicEndpoint, request log)      *)
(*   - the per-endpoint conditional counter (pkg/types/types.go)          *)
(*   - the statistics           (pkg/types/types.go, ServerStats)         *)
(*   - the life cycle           (Server.Start / Stop, config.Watcher)     *)
(*   - the subscribers          (handleWebSocket, broadcastToWebSockets,  *)
(*                               onConfigChange)                          *)
(*                                                                         *)
(* Go objects that are shared by pointer (the *types.Config held in       *)
(* Manager.config) live in `heap`; every goroutine that runs a handler    *)
(* is a thread with a program counter.                                    *)
(***************************************************************************)
EXTENDS Integers, Sequences, FiniteSets, TLC

VARIABLES
    \* ---- configuration store (config.Manager) ----
    heap,        \* Ref -> Config value: the Config structs reachable by pointer
    m_config,    \* Manager.config: a Ref, or 0 for nil
    disk,        \* content of the file at Manager.configPath
    mutex,       \* Manager.mutex: 0 when free, else the thread holding the write lock
    pc,          \* thread -> position inside the Manager method it runs
    call,        \* thread -> the method call it runs (method, arguments)
    io,          \* thread -> what the file system did to the call's file operation
    data,        \* thread -> local `data` of saveConfigToFile (the marshalled bytes)
    res,         \* thread -> the error the call returns ("ok" for nil)
    spawned,     \* thread -> whether the call ran `go m.notifyWatchers(...)`
    pre,         \* thread -> (history) the store as it was when the lock was taken
    held,        \* the caller's own reference to a Config (a snapshot, or an argument)
    applied,     \* (history) the calls that returned, in the order of their return
    start0,      \* (history) the store before the first call
    anyFailed,   \* (history) whether some call has returned an error
    \* ---- request pipeline (server.Server, types.EndpointStats) ----
    ConditionalCount,\* path -> EndpointStats.ConditionalCount
    requestLog,      \* Server.requestLog
    now,             \* the wall clock (time.Now), in ticks
    rpc,             \* request -> position inside the middleware / handler
    rpath,           \* request -> r.URL.Path
    rep,             \* request -> the EndpointConfig found by handleRequest
    rstart,          \* request -> startTime of the middleware
    rcount,          \* request -> local `count` of handleDynamicEndpoint
    rinc,            \* request -> (history) the value its own increment produced
    rstatus,         \* request -> rw.statusCode
    appended,        \* (history) every entry given to addToRequestLog, in order
    \* ---- statistics (types.ServerStats, types.EndpointStats) ----
    ssStats,         \* ServerStats.RequestCount and ErrorCount
    epStats,         \* path -> EndpointStats (RequestCount, ErrorCount, StatusCodes)
    rcode,           \* request -> the statusCode it passes to s.stats.RecordRequest
    snap,            \* the copy GetAllStats is building while it holds the read lock
    \* ---- subscribers (Server.wsConnections, handleWebSocket) ----
    wsConnections,   \* Server.wsConnections: the connections in the map
    wpc,             \* connection -> position of its handleWebSocket goroutine
    recv,            \* connection -> the messages its peer has received, in order
    health,          \* connection -> what a write to it does: "ok", "dead" (error), "stalled" (blocks)
    wsFault,         \* the runtime stopped the process (concurrent map iteration and map write)
    dropped,         \* (history) connection -> who deleted it from the map (0: nobody)
    \* ---- publishers (onConfigChange, logRequestMiddleware, broadcastToWebSockets) ----
    bc,              \* broadcaster -> the goroutine that publishes one message
    liveObj,         \* the Config object Manager.config points to
    objVer,          \* Config object -> the mutation whose content it holds now
    cfgSeq,          \* (history) number of times the live Config was replaced
    pubs,            \* (history) the publishes: whether a notification was started, and
                     \* the subscribers connected then
    \* ---- life cycle (Server.Start / Stop, config.Watcher) ----
    isRunning,       \* Server.isRunning
    httpServer,      \* Server.httpServer: "nil", "new", "serving" or "shut"
    listeners,       \* ListenAndServe goroutines started and not shut down
    w_isRunning,     \* Watcher.isRunning
    stopChan,        \* Watcher.stopChan: "open" or "closed"
    watchTasks,      \* live goroutines running Watcher.watch
    lpc,             \* position of the goroutine that holds Server.mu
    lop,             \* (history) the last life-cycle call that returned
    lran,            \* (history) Server.isRunning when that call began
    lres,            \* the error that call returned ("ok" for nil)
    lcount,          \* (history) number of life-cycle calls that returned
    \* ---- elapsed times of one endpoint (types.EndpointStats) ----
    esTimes,         \* RequestCount, TotalTimeMs, MinTimeMs, MaxTimeMs of an EndpointStats
    durations,       \* (history) the elapsed milliseconds recorded on it, in order
    \* ---- hot reload (config.Watcher.watch, an editor of the file) ----
    events,          \* Watcher.watcher.Events: the file events not yet received
    wtpc,            \* position of the goroutine that runs Watcher.watch
    lastReload,      \* local `lastReload` of Watcher.watch
    wakeAt,          \* the time at which the Sleep of reloadConfig is over
    editing,         \* whether the editor may still rewrite the file
    edits,           \* (history) the contents the editor wrote, in order
    lastOk,          \* (history) the time of the last reload that succeeded
    wlog,            \* (history) the events received, with what watch did with each
    \* ---- the locks of the server and the goroutines that take them ----
    lk,              \* per lock: the writer that holds or has asked for it, the readers
    tpc,             \* per task: the next operation of its program, whether its Lock has asked
    \* ---- the terminal client (tui.Model) and the server it talks to ----
    tui,             \* the tui.Model: the fields that Update and View use
    lines,           \* per tab: the lines its view has for a connected client
    rendered,        \* (history) what the last renderScrollableContent sliced
    reachable,       \* whether the server answers HTTP requests
    cmds             \* the commands of the client that are running or scheduled

cfgVars == <<heap, m_config, disk, mutex, pc, call, io, data, res, spawned, pre, held,
             applied, start0, anyFailed>>
statVars == <<ssStats, epStats, rcode, snap>>
wsVars == <<wsConnections, wpc, recv, health, wsFault, dropped>>
pubVars == <<bc, liveObj, objVer, cfgSeq, pubs>>
lifeVars == <<isRunning, httpServer, listeners, w_isRunning, stopChan, watchTasks,
              lpc, lop, lran, lres, lcount>>
timeVars == <<esTimes, durations>>
watchVars == <<events, wtpc, lastReload, wakeAt, editing, edits, lastOk, wlog>>
lockVars == <<lk, tpc>>
tuiVars == <<tui, lines, rendered, reachable, cmds>>
auxVars == <<timeVars, watchVars, lockVars, tuiVars>>
extVars == <<wsVars, lifeVars, pubVars, auxVars>>
reqVars == <<ConditionalCount, requestLog, now, rpc, rpath, rep, rstart, rcount,
             rinc, rstatus, appended, statVars, extVars>>
vars == <<cfgVars, reqVars>>

-----------------------------------------------------------------------------
(* Bounds of the model *)

NThreads == 2      \* goroutines calling the Manager concurrently
MaxCalls == 3      \* Manager calls per behaviour in the concurrent specification
MaxReq == 5        \* HTTP requests per behaviour
MaxN == 3          \* largest error_every_n tried
maxLogSize == 2     \* Server.maxLogSize (1000 in NewServer), scaled down
MaxConcReq == 4    \* HTTP requests per behaviour when they are handled concurrently
MaxMs == 3         \* largest elapsed time of a request, in milliseconds
MaxRecords == 4    \* records on the endpoint whose elapsed times are followed
MaxClock == 8      \* ticks of 100 ms per behaviour of the watcher
MaxEdits == 3      \* rewrites of the file by the editor
TabCount == 2      \* len(tabs) (5 in the client), scaled down
MaxLines == 12     \* most lines a tab's view has
MaxStatReq == 3    \* HTTP requests per behaviour when the statistics are recorded step by step
MaxLife == 4       \* calls of Server.Start and Server.Stop per behaviour
MaxConns == 2      \* websocket connections per behaviour
MaxBcast == 2      \* messages broadcast per behaviour
MaxPub == 2        \* replacements of the live Config per behaviour

Threads == 1..NThreads
Refs == 1..(NThreads + 3)
Reqs == 1..MaxReq

-----------------------------------------------------------------------------
(* types.ServerConfig, types.EndpointConfig, types.Config *)

\* A Go map[string]interface{} field is one of: the nil map, an empty non-nil
\* map, a map with some content.
ZeroEndpoint ==
    [Type |-> "", StatusCode |-> 0, Message |-> "", DelayMs |-> 0,
     Response |-> "nil", ErrorEveryN |-> 0, SuccessResponse |-> "nil"]

ZeroServer == [Port |-> 0, Host |-> "", StaticDir |-> ""]

\* A Go map[string]EndpointConfig: nil, or a function from the keys present.
NilMap == [isnil |-> TRUE, m |-> <<>>]
MakeMap(f) == [isnil |-> FALSE, m |-> f]
EmptyMap == MakeMap(<<>>)
Keys(mp) == DOMAIN mp.m
MapSet(mp, k, v) == MakeMap([p \in Keys(mp) \cup {k} |-> IF p = k THEN v ELSE mp.m[p]])
MapDelete(mp, k) == [mp EXCEPT !.m = [p \in Keys(mp) \ {k} |-> mp.m[p]]]

ZeroConfig == [Server |-> ZeroServer, Endpoints |-> NilMap]

ErrorEndpoint(code, msg) ==
    [ZeroEndpoint EXCEPT !.Type = "error", !.StatusCode = code, !.Message = msg]
DelayEndpoint(ms, resp) ==
    [ZeroEndpoint EXCEPT !.Type = "delay", !.DelayMs = ms, !.Response = resp]
CondEndpoint(n, code, resp) ==
    [ZeroEndpoint EXCEPT !.Type = "conditional_error", !.ErrorEveryN = n,
                         !.StatusCode = code, !.SuccessResponse = resp]

\* a default configuration whose /api/flaky fails every second request
createDefaultConfig_EverySecond ==
    [Server |-> [Port |-> 8080, Host |-> "0.0.0.0", StaticDir |-> "./static"],
     Endpoints |-> MakeMap(
        [p \in {"/api/error", "/api/delay", "/api/flaky"} |->
            CASE p = "/api/error" -> ErrorEndpoint(500, "Internal Server Error")
              [] p = "/api/delay" -> DelayEndpoint(2000, "obj")
              [] p = "/api/flaky" -> CondEndpoint(2, 503, "obj")])]

createDefaultConfig ==
    [Server |-> [Port |-> 8080, Host |-> "0.0.0.0", StaticDir |-> "./static"],
     Endpoints |-> MakeMap(
        [p \in {"/api/error", "/api/delay", "/api/flaky"} |->
            CASE p = "/api/error" -> ErrorEndpoint(500, "Internal Server Error")
              [] p = "/api/delay" -> DelayEndpoint(2000, "obj")
              [] p = "/api/flaky" -> CondEndpoint(3, 503, "obj")])]

-----------------------------------------------------------------------------
(* Manager.validateEndpointConfig, Manager.validateConfig *)

validateEndpointConfig(config) ==
    CASE config.Type = "error" ->
            IF config.StatusCode < 400 \/ config.StatusCode > 599
            THEN "invalid" ELSE "ok"
      [] config.Type = "delay" ->
            IF config.DelayMs < 0 THEN "invalid" ELSE "ok"
      [] config.Type = "conditional_error" ->
            IF config.ErrorEveryN < 1 THEN "invalid"
            ELSE IF config.StatusCode < 400 \/ config.StatusCode > 599
                 THEN "invalid" ELSE "ok"
      [] config.Type = "static" -> "ok"
      [] OTHER -> "invalid"

\* validateConfig that looks at the server settings only
validateConfig_ServerOnly(config) ==
    IF config.Server.Port < 1 \/ config.Server.Port > 65535 THEN "invalid"
    ELSE IF config.Server.Host = "" THEN "invalid"
    ELSE IF config.Server.StaticDir = "" THEN "invalid"
    ELSE "ok"

validateConfig(config) ==
    IF config.Server.Port < 1 \/ config.Server.Port > 65535 THEN "invalid"
    ELSE IF config.Server.Host = "" THEN "invalid"
    ELSE IF config.Server.StaticDir = "" THEN "invalid"
    ELSE IF \E path \in Keys(config.Endpoints) :
                \/ path = ""
                \/ validateEndpointConfig(config.Endpoints.m[path]) # "ok"
         THEN "invalid"
    ELSE "ok"

-----------------------------------------------------------------------------
(* encoding/json on types.Config: json.MarshalIndent and json.Unmarshal,    *)
(* following the struct tags of pkg/types/types.go.  A JSON object is a     *)
(* function from the keys it has.                                           *)

EndpointTags ==
    {"type", "status_code", "message", "delay_ms", "response", "error_every_n",
     "success_response"}

\* the value written for a tag
TagValue(e, tag) ==
    CASE tag = "type" -> e.Type
      [] tag = "status_code" -> e.StatusCode
      [] tag = "message" -> e.Message
      [] tag = "delay_ms" -> e.DelayMs
      [] tag = "response" -> e.Response
      [] tag = "error_every_n" -> e.ErrorEveryN
      [] tag = "success_response" -> e.SuccessResponse

\* `omitempty`: the field is left out when it is 0, "", or a map of length 0
\* (nil or empty).  "type" has no omitempty.
Omitted(e, tag) ==
    CASE tag = "type" -> FALSE
      [] tag \in {"status_code", "delay_ms", "error_every_n"} -> TagValue(e, tag) = 0
      [] tag = "message" -> e.Message = ""
      [] tag \in {"response", "success_response"} -> TagValue(e, tag) \in {"nil", "empty"}

MarshalEndpoint(e) ==
    [tag \in {t \in EndpointTags : ~Omitted(e, t)} |-> TagValue(e, tag)]

\* a field absent from the JSON object keeps its zero value
UnmarshalEndpoint(j) ==
    LET get(tag, zero) == IF tag \in DOMAIN j THEN j[tag] ELSE zero
    IN  [Type |-> get("type", ""),
         StatusCode |-> get("status_code", 0),
         Message |-> get("message", ""),
         DelayMs |-> get("delay_ms", 0),
         Response |-> get("response", "nil"),
         ErrorEveryN |-> get("error_every_n", 0),
         SuccessResponse |-> get("success_response", "nil")]

\* "endpoints" has no omitempty: a nil map is written as null
MarshalIndent(config) ==
    [server |-> [port |-> config.Server.Port, host |-> config.Server.Host,
                 static_dir |-> config.Server.StaticDir],
     endpoints |->
        IF config.Endpoints.isnil THEN [null |-> TRUE, obj |-> <<>>]
        ELSE [null |-> FALSE,
              obj |-> [p \in Keys(config.Endpoints) |->
                          MarshalEndpoint(config.Endpoints.m[p])]]]

Unmarshal(doc) ==
    [Server |-> [Port |-> doc.server.port, Host |-> doc.server.host,
                 StaticDir |-> doc.server.static_dir],
     Endpoints |->
        IF doc.endpoints.null THEN NilMap
        ELSE MakeMap([p \in DOMAIN doc.endpoints.obj |->
                         UnmarshalEndpoint(doc.endpoints.obj[p])])]

-----------------------------------------------------------------------------
(* The file at configPath *)

NoFile == [kind |-> "none"]
Garbage == [kind |-> "garbage"]        \* bytes that are not a JSON document
JsonFile(doc) == [kind |-> "json", doc |-> doc]

-----------------------------------------------------------------------------
(* The store as a value: what GetConfig would show, and the file *)

LiveValue ==
    IF m_config = 0 THEN [loaded |-> FALSE, cfg |-> ZeroConfig]
    ELSE [loaded |-> TRUE, cfg |-> heap[m_config]]

StoreState == [live |-> LiveValue, disk |-> disk]

\* A call of a Manager method: the method and its arguments.
NoCall == [op |-> "none", path |-> "", ep |-> ZeroEndpoint, ref |-> 0]
NoHeld == [kind |-> "none", ref |-> 0]
NoPre == [live |-> [loaded |-> FALSE, cfg |-> ZeroConfig], disk |-> NoFile, arg |-> ZeroConfig]
NoData == MarshalIndent(ZeroConfig)

\* &EndpointStats{Path: path, StatusCodes: make(map[int]int64)}
NewEndpointStats == [RequestCount |-> 0, ErrorCount |-> 0, StatusCodes |-> <<>>]

\* no GetAllStats is running
NoSnapshot == [busy |-> FALSE, todo |-> {}, RequestCount |-> 0, ErrorCount |-> 0,
               Endpoints |-> <<>>]

Mutators == {"replace", "upsert", "delete"}

\* What the file system does to the one file operation a call makes: "ok";
\* "fail": the operation fails and changes nothing; "torn": os.WriteFile
\* fails after it truncated the file.
IoOutcomes == {"ok", "fail", "torn"}

\* Garbage collection: a Config no pointer refers to is dropped.
Roots(mc, cl, hd) == ({mc} \cup {cl[t].ref : t \in Threads} \cup {hd.ref}) \ {0}
Sweep(h, roots) == [r \in Refs |-> IF r \in roots THEN h[r] ELSE ZeroConfig]
NewRef(roots) == CHOOSE r \in Refs \ roots : \A q \in Refs \ roots : r <= q

-----------------------------------------------------------------------------
(* sync.RWMutex of the Manager *)

\* a Manager whose methods take no lock
NeverLocked == TRUE

MutexFree == mutex = 0

\* m.mutex.Lock()
Lock(t) ==
    /\ pc[t] = "lock"
    /\ MutexFree
    /\ mutex' = t
    /\ pc' = [pc EXCEPT ![t] = "run"]
    /\ pre' = [pre EXCEPT ![t] =
                 [live |-> LiveValue, disk |-> disk,
                  arg |-> IF call[t].ref = 0 THEN ZeroConfig ELSE heap[call[t].ref]]]
    /\ UNCHANGED <<heap, m_config, disk, call, io, data, res, spawned, held, applied,
                   start0, anyFailed>>
    /\ UNCHANGED reqVars

\* return err
Fail(t, err) ==
    /\ res' = [res EXCEPT ![t] = err]
    /\ pc' = [pc EXCEPT ![t] = "ret"]

-----------------------------------------------------------------------------
(* Manager.LoadConfig, up to the save of the default configuration;        *)
(* `o` is what os.ReadFile does when the file exists                        *)

LoadConfig_Run(t, o) ==
    /\ pc[t] = "run"
    /\ call[t].op = "load"
    /\ IF disk = NoFile
       THEN \* os.IsNotExist: the default configuration is saved, then adopted
            /\ pc' = [pc EXCEPT ![t] = "marshal"]
            /\ UNCHANGED <<heap, m_config, res, io>>
       ELSE /\ io' = [io EXCEPT ![t] = o]
            /\ IF o # "ok"
               THEN Fail(t, "ioerror") /\ UNCHANGED <<heap, m_config>>     \* os.ReadFile
               ELSE IF disk = Garbage
               THEN Fail(t, "parseerror") /\ UNCHANGED <<heap, m_config>>  \* json.Unmarshal
               ELSE LET config == Unmarshal(disk.doc)
                        r == NewRef(Roots(m_config, call, held))
                    IN  IF validateConfig(config) # "ok"
                        THEN Fail(t, "invalid") /\ UNCHANGED <<heap, m_config>>
                        ELSE /\ m_config' = r                       \* m.config = &config
                             /\ heap' = Sweep([heap EXCEPT ![r] = config],
                                              Roots(r, call, held))
                             /\ Fail(t, "ok")
    /\ UNCHANGED <<disk, mutex, call, data, spawned, pre, held, applied, start0, anyFailed>>
    /\ UNCHANGED reqVars

(* Manager.UpdateConfig, up to the save *)
UpdateConfig_Run(t) ==
    /\ pc[t] = "run"
    /\ call[t].op = "replace"
    /\ IF validateConfig(heap[call[t].ref]) # "ok"
       THEN Fail(t, "invalid")
       ELSE pc' = [pc EXCEPT ![t] = "marshal"] /\ UNCHANGED res
    /\ UNCHANGED <<heap, m_config, disk, mutex, call, io, data, spawned, pre, held,
                   applied, start0, anyFailed>>
    /\ UNCHANGED reqVars

\* lines 123-126 of UpdateEndpoint: the table of the live Config is changed in place
SetEndpoint(config, path, endpointConfig) ==
    [config EXCEPT !.Endpoints =
        MapSet(IF config.Endpoints.isnil THEN EmptyMap ELSE config.Endpoints,
               path, endpointConfig)]

\* UpdateEndpoint with lines 122-126 moved above the validation of line 118
UpdateEndpoint_SetBeforeValidate(t) ==
    /\ pc[t] = "run"
    /\ call[t].op = "upsert"
    /\ IF m_config = 0
       THEN Fail(t, "notloaded") /\ UNCHANGED heap
       ELSE /\ heap' = [heap EXCEPT ![m_config] = SetEndpoint(@, call[t].path, call[t].ep)]
            /\ IF validateEndpointConfig(call[t].ep) # "ok"
               THEN Fail(t, "invalid")
               ELSE pc' = [pc EXCEPT ![t] = "marshal"] /\ UNCHANGED res
    /\ UNCHANGED <<m_config, disk, mutex, call, io, data, spawned, pre, held, applied,
                   start0, anyFailed>>
    /\ UNCHANGED reqVars

(* Manager.UpdateEndpoint, up to the save *)
UpdateEndpoint_Run(t) ==
    /\ pc[t] = "run"
    /\ call[t].op = "upsert"
    /\ IF m_config = 0
       THEN Fail(t, "notloaded") /\ UNCHANGED heap
       ELSE IF validateEndpointConfig(call[t].ep) # "ok"
       THEN Fail(t, "invalid") /\ UNCHANGED heap
       ELSE /\ heap' = [heap EXCEPT ![m_config] = SetEndpoint(@, call[t].path, call[t].ep)]
            /\ pc' = [pc EXCEPT ![t] = "marshal"]
            /\ UNCHANGED res
    /\ UNCHANGED <<m_config, disk, mutex, call, io, data, spawned, pre, held, applied,
                   start0, anyFailed>>
    /\ UNCHANGED reqVars

\* line 152 of RemoveEndpoint
DeleteEndpoint(config, path) ==
    [config EXCEPT !.Endpoints = MapDelete(@, path)]

(* Manager.RemoveEndpoint, up to the save *)
RemoveEndpoint_Run(t) ==
    /\ pc[t] = "run"
    /\ call[t].op = "delete"
    /\ IF m_config = 0
       THEN Fail(t, "notloaded") /\ UNCHANGED heap
       ELSE IF heap[m_config].Endpoints.isnil
       THEN Fail(t, "notfound") /\ UNCHANGED heap
       ELSE /\ heap' = [heap EXCEPT ![m_config] = DeleteEndpoint(@, call[t].path)]
            /\ pc' = [pc EXCEPT ![t] = "marshal"]
            /\ UNCHANGED res
    /\ UNCHANGED <<m_config, disk, mutex, call, io, data, spawned, pre, held, applied,
                   start0, anyFailed>>
    /\ UNCHANGED reqVars

-----------------------------------------------------------------------------
(* Manager.saveConfigToFile: json.MarshalIndent, then os.WriteFile *)

\* the Config the running call hands to saveConfigToFile
SaveArgument(t) ==
    CASE call[t].op = "load" -> createDefaultConfig
      [] call[t].op = "replace" -> heap[call[t].ref]
      [] OTHER -> heap[m_config]

Save_Marshal(t) ==
    /\ pc[t] = "marshal"
    /\ data' = [data EXCEPT ![t] = MarshalIndent(SaveArgument(t))]
    /\ pc' = [pc EXCEPT ![t] = "write"]
    /\ UNCHANGED <<heap, m_config, disk, mutex, call, io, res, spawned, pre, held, applied,
                   start0, anyFailed>>
    /\ UNCHANGED reqVars

\* os.MkdirAll and os.WriteFile: the file is truncated and written in place
WriteFile(file, bytes, o) ==
    CASE o = "ok" -> JsonFile(bytes)
      [] o = "torn" -> Garbage
      [] OTHER -> file

Save_Write(t, o) ==
    /\ pc[t] = "write"
    /\ io' = [io EXCEPT ![t] = o]
    /\ disk' = WriteFile(disk, data[t], o)
    /\ IF o = "ok"
       THEN pc' = [pc EXCEPT ![t] = "publish"] /\ UNCHANGED res
       ELSE Fail(t, "ioerror")
    /\ UNCHANGED <<heap, m_config, mutex, call, data, spawned, pre, held, applied, start0,
                   anyFailed>>
    /\ UNCHANGED reqVars

-----------------------------------------------------------------------------
(* What each method does after a successful save *)

\* the pointer stored in m.config after the save; `fresh` is a new Config
PublishedRef(t, fresh) ==
    CASE call[t].op = "load" -> fresh             \* m.config = defaultConfig
      [] call[t].op = "replace" -> call[t].ref    \* m.config = newConfig
      [] OTHER -> m_config

\* whether the method runs `go m.notifyWatchers(...)`
Notifies(op) == op \in {"replace", "upsert", "delete"}

Publish(t) ==
    /\ pc[t] = "publish"
    /\ LET fresh == NewRef(Roots(m_config, call, held))
           r == PublishedRef(t, fresh)
           h == IF call[t].op = "load"
                THEN [heap EXCEPT ![fresh] = createDefaultConfig] ELSE heap
       IN  /\ m_config' = r
           /\ heap' = Sweep(h, Roots(r, call, held))
    /\ spawned' = [spawned EXCEPT ![t] = Notifies(call[t].op)]
    /\ Fail(t, "ok")
    /\ UNCHANGED <<disk, mutex, call, io, data, pre, held, applied, start0, anyFailed>>
    /\ UNCHANGED reqVars

\* the call as a value: the method, its arguments and the file system's answer
CallValue(t) ==
    [op |-> call[t].op, path |-> call[t].path, ep |-> call[t].ep,
     cfg |-> IF call[t].ref = 0 THEN ZeroConfig ELSE pre[t].arg, io |-> io[t],
     res |-> res[t], overlap |-> \E u \in Threads \ {t} : pc[u] # "idle"]

\* the deferred m.mutex.Unlock() and the return to the caller, who keeps
\* (keep) or drops its pointer to the Config it passed; `track` says whether
\* the history `applied` is kept
Return(t, keep, track) ==
    /\ pc[t] = "ret"
    /\ mutex' = 0
    /\ pc' = [pc EXCEPT ![t] = "idle"]
    /\ anyFailed' = (anyFailed \/ res[t] # "ok")
    /\ applied' = IF track THEN Append(applied, CallValue(t)) ELSE applied
    /\ held' = IF keep /\ call[t].op = "replace"
               THEN [kind |-> "arg", ref |-> call[t].ref] ELSE held
    /\ call' = [call EXCEPT ![t] = NoCall]
    /\ io' = [io EXCEPT ![t] = "ok"]
    /\ data' = [data EXCEPT ![t] = NoData]
    /\ res' = [res EXCEPT ![t] = "none"]
    /\ spawned' = [spawned EXCEPT ![t] = FALSE]
    /\ pre' = [pre EXCEPT ![t] = NoPre]
    /\ heap' = Sweep(heap, Roots(m_config, call', held'))
    /\ UNCHANGED <<m_config, disk, start0>>
    /\ UNCHANGED reqVars

-----------------------------------------------------------------------------
(* The calls the callers make *)

Server1 == [Port |-> 8080, Host |-> "0.0.0.0", StaticDir |-> "./static"]

ValidEndpoints ==
    {DelayEndpoint(0, "empty"), [ZeroEndpoint EXCEPT !.Type = "static"]}
InvalidEndpoints ==
    {ErrorEndpoint(200, "m"), DelayEndpoint(-1, "nil"), CondEndpoint(0, 503, "nil"),
     CondEndpoint(2, 600, "nil"), [ZeroEndpoint EXCEPT !.Type = "bogus"]}
EndpointInputs == ValidEndpoints \cup InvalidEndpoints

PathInputs == {"", "/api/error", "/api/new"}

ValidConfigs ==
    {[Server |-> [Server1 EXCEPT !.Port = 1], Endpoints |-> NilMap],
     [Server |-> [Server1 EXCEPT !.Port = 65535],
      Endpoints |-> MakeMap([p \in {"/api/new"} |-> CondEndpoint(2, 503, "nil")])]}
InvalidConfigs ==
    {[Server |-> [Server1 EXCEPT !.Port = 0], Endpoints |-> EmptyMap],
     [Server |-> [Server1 EXCEPT !.Port = 70000], Endpoints |-> EmptyMap],
     [Server |-> [Server1 EXCEPT !.Host = ""], Endpoints |-> EmptyMap],
     [Server |-> [Server1 EXCEPT !.StaticDir = ""], Endpoints |-> EmptyMap],
     [Server |-> Server1, Endpoints |-> MakeMap([p \in {""} |-> ErrorEndpoint(500, "m")])],
     [Server |-> Server1,
      Endpoints |-> MakeMap([p \in {"/api/new"} |-> ErrorEndpoint(200, "m")])]}
ConfigInputs == ValidConfigs \cup InvalidConfigs

\* a caller starts a Manager method; for UpdateConfig it has built the Config
\* `cfg` and passes a pointer to it
Begin(t, op, path, ep, cfg) ==
    /\ pc[t] = "idle"
    /\ LET r == IF op = "replace" THEN NewRef(Roots(m_config, call, held)) ELSE 0
       IN  /\ call' = [call EXCEPT ![t] = [op |-> op, path |-> path, ep |-> ep, ref |-> r]]
           /\ heap' = IF op = "replace" THEN [heap EXCEPT ![r] = cfg] ELSE heap
    /\ pc' = [pc EXCEPT ![t] = "lock"]
    /\ UNCHANGED <<m_config, disk, mutex, io, data, res, spawned, pre, held, applied,
                   start0, anyFailed>>
    /\ UNCHANGED reqVars

BeginLoad(t) == Begin(t, "load", "", ZeroEndpoint, ZeroConfig)
BeginReplace(t, cfg) == Begin(t, "replace", "", ZeroEndpoint, cfg)
BeginUpsert(t, path, ep) == Begin(t, "upsert", path, ep, ZeroConfig)
BeginDelete(t, path) == Begin(t, "delete", path, ZeroEndpoint, ZeroConfig)

NoCallRunning == \A t \in Threads : pc[t] = "idle"

\* the steps of a running call, once it holds the lock; `outcomes` is what
\* the file system may do
Step(t, outcomes) ==
    \/ \E o \in outcomes : LoadConfig_Run(t, o)
    \/ UpdateConfig_Run(t)
    \/ UpdateEndpoint_Run(t)
    \/ RemoveEndpoint_Run(t)
    \/ Save_Marshal(t)
    \/ \E o \in outcomes : Save_Write(t, o)
    \/ Publish(t)

-----------------------------------------------------------------------------
(* Initial states of the store: NewManager has run, the file is whatever    *)
(* was left at configPath                                                   *)

InitialFiles ==
    {NoFile, Garbage,
     JsonFile(MarshalIndent([Server |-> [Server1 EXCEPT !.Port = 70000],
                             Endpoints |-> EmptyMap]))}

InitStoreWith(file) ==
    /\ heap = [r \in Refs |-> ZeroConfig]
    /\ m_config = 0
    /\ disk = file
    /\ mutex = 0
    /\ pc = [t \in Threads |-> "idle"]
    /\ call = [t \in Threads |-> NoCall]
    /\ io = [t \in Threads |-> "ok"]
    /\ data = [t \in Threads |-> NoData]
    /\ res = [t \in Threads |-> "none"]
    /\ spawned = [t \in Threads |-> FALSE]
    /\ pre = [t \in Threads |-> NoPre]
    /\ held = NoHeld
    /\ applied = <<>>
    /\ start0 = [live |-> [loaded |-> FALSE, cfg |-> ZeroConfig], disk |-> file]
    /\ anyFailed = FALSE

\* the request pipeline at rest (not part of the store specifications)
Conns == 1..MaxConns
Bcasters == 1..MaxBcast

NoBroadcast == [pc |-> "idle", type |-> "", seq |-> 0, obj |-> 0, todo |-> {},
                failed |-> {}, sent |-> {}]

\* no subscriber yet
InitWsIdle ==
    /\ wsConnections = {}
    /\ wpc = [c \in Conns |-> "none"]
    /\ recv = [c \in Conns |-> <<>>]
    /\ health = [c \in Conns |-> "ok"]
    /\ wsFault = FALSE
    /\ dropped = [c \in Conns |-> 0]

\* no message to broadcast yet; the Config loaded by NewServer is object 1, content 0
InitPubIdle ==
    /\ bc = [b \in Bcasters |-> NoBroadcast]
    /\ liveObj = 1
    /\ objVer = <<0>>
    /\ cfgSeq = 0
    /\ pubs = <<>>

\* NewServer and NewWatcher: not running, the stop channel made and open
InitLifeIdle ==
    /\ isRunning = FALSE
    /\ httpServer = "nil"
    /\ listeners = 0
    /\ w_isRunning = FALSE
    /\ stopChan = "open"
    /\ watchTasks = 0
    /\ lpc = "idle"
    /\ lop = "none"
    /\ lran = FALSE
    /\ lres = "ok"
    /\ lcount = 0

InitReqCore ==
    /\ ConditionalCount = [p \in {} |-> 0]
    /\ requestLog = <<>>
    /\ now = 0
    /\ rpc = [r \in Reqs |-> "idle"]
    /\ rpath = [r \in Reqs |-> ""]
    /\ rep = [r \in Reqs |-> ZeroEndpoint]
    /\ rstart = [r \in Reqs |-> 0]
    /\ rcount = [r \in Reqs |-> 0]
    /\ rinc = [r \in Reqs |-> 0]
    /\ rstatus = [r \in Reqs |-> 0]
    /\ appended = <<>>
    /\ ssStats = [RequestCount |-> 0, ErrorCount |-> 0]
    /\ epStats = [p \in {} |-> NewEndpointStats]
    /\ rcode = [r \in Reqs |-> 0]
    /\ snap = NoSnapshot

\* &EndpointStats{...}: the time fields are zero
NoTimes == [RequestCount |-> 0, TotalTimeMs |-> 0, MinTimeMs |-> 0, MaxTimeMs |-> 0]

InitTimesIdle ==
    /\ esTimes = NoTimes
    /\ durations = <<>>

\* `var lastReload time.Time`: the zero time
ZeroTime == [isZero |-> TRUE, at |-> 0]
At(t) == [isZero |-> FALSE, at |-> t]

\* Watcher.watch waits in its select, no event is pending
InitWatchIdle ==
    /\ events = <<>>
    /\ wtpc = "select"
    /\ lastReload = ZeroTime
    /\ wakeAt = 0
    /\ editing = TRUE
    /\ edits = <<>>
    /\ lastOk = ZeroTime
    /\ wlog = <<>>

\* the locks: Server.mu, Watcher.mutex, Manager.mutex, ServerStats.mutex, the
\* mutex of one EndpointStats, Server.requestLogMu, Server.wsConnectionsMu
LockNames == {"s.mu", "w.mutex", "m.mutex", "ss.mutex", "es.mutex", "requestLogMu",
              "wsConnectionsMu"}

\* the goroutines of the lock model, by what they run
LockTasks == <<"request", "snapshot", "mutation", "reload", "stop">>
TaskIds == 1..Len(LockTasks)

\* every lock is free and every task is before its first operation
InitLocksIdle ==
    /\ lk = [l \in LockNames |-> [w |-> 0, r |-> {}]]
    /\ tpc = [t \in TaskIds |-> [i |-> 1, asked |-> FALSE]]

Tabs == 0..(TabCount - 1)
DefaultViewport == 20      \* viewportHeight: 20 in NewModel

\* tui.NewModel
NewModel ==
    [connected |-> FALSE, lastError |-> "", activeTab |-> 0, width |-> 0,
     scrollPositions |-> [t \in Tabs |-> 0], contentHeights |-> [t \in Tabs |-> 0],
     viewportHeight |-> DefaultViewport]

NotRendered == [done |-> FALSE, p |-> 0, len |-> 0, viewport |-> 0, panic |-> FALSE]

\* Model.Init: connectToServer is started and the refresh tick is scheduled
InitTuiIdle ==
    /\ tui = NewModel
    /\ lines = [t \in Tabs |-> 1]
    /\ rendered = NotRendered
    /\ reachable = TRUE
    /\ cmds = {"connect", "refresh"}

InitAuxIdle == InitTimesIdle /\ InitWatchIdle /\ InitLocksIdle /\ InitTuiIdle

InitReqIdle == InitReqCore /\ InitWsIdle /\ InitLifeIdle /\ InitPubIdle /\ InitAuxIdle

-----------------------------------------------------------------------------
(* SpecStore: the Manager called by one caller, one call after the other,   *)
(* on a file system whose operations succeed, fail or tear the file         *)

InitStore == (\E file \in InitialFiles : InitStoreWith(file)) /\ InitReqIdle

NextStore ==
    \/ \E t \in {1} : NoCallRunning /\ BeginLoad(t)
    \/ \E t \in {1}, cfg \in ConfigInputs : NoCallRunning /\ BeginReplace(t, cfg)
    \/ \E t \in {1}, path \in PathInputs, ep \in EndpointInputs :
          NoCallRunning /\ BeginUpsert(t, path, ep)
    \/ \E t \in {1}, path \in PathInputs : NoCallRunning /\ BeginDelete(t, path)
    \/ \E t \in Threads : Lock(t)
    \/ \E t \in Threads : Step(t, IoOutcomes)
    \/ \E t \in Threads : Return(t, FALSE, FALSE)

SpecStore == InitStore /\ [][NextStore]_vars

-----------------------------------------------------------------------------
(* Manager.GetConfig, and what a caller does with the Configs it holds *)

\* lines 75-79: the struct is copied, and a new map is filled with the entries
GetConfigCopy(config) ==
    [Server |-> config.Server, Endpoints |-> MakeMap(config.Endpoints.m)]

\* GetConfig under m.mutex.RLock(); the caller keeps the pointer returned
GetConfig ==
    /\ MutexFree
    /\ IF m_config = 0
       THEN /\ held' = NoHeld                                      \* return nil
            /\ heap' = Sweep(heap, Roots(m_config, call, NoHeld))
       ELSE LET r == NewRef(Roots(m_config, call, held))
            IN  /\ held' = [kind |-> "snap", ref |-> r]
                /\ heap' = Sweep([heap EXCEPT ![r] = GetConfigCopy(heap[m_config])],
                                 Roots(m_config, call, held'))
    /\ UNCHANGED <<m_config, disk, mutex, pc, call, io, data, res, spawned, pre, applied,
                   start0, anyFailed>>
    /\ UNCHANGED reqVars

\* the caller writes to the Config it holds: cfg.Endpoints[path] = ep
ClientWrite(path, ep) ==
    /\ NoCallRunning
    /\ held.ref # 0
    /\ heap' = [heap EXCEPT ![held.ref] = SetEndpoint(@, path, ep)]
    /\ UNCHANGED <<m_config, disk, mutex, pc, call, io, data, res, spawned, pre, held,
                   applied, start0, anyFailed>>
    /\ UNCHANGED reqVars

-----------------------------------------------------------------------------
(* SpecAlias: one caller that keeps the Configs it passes to UpdateConfig   *)
(* and the snapshots it gets from GetConfig, and writes to them             *)

AliasConfigs ==
    {[Server |-> [Server1 EXCEPT !.Port = 65535],
      Endpoints |-> MakeMap([p \in {"/api/new"} |-> CondEndpoint(2, 503, "nil")])]}
AliasEndpoints == {ErrorEndpoint(404, "t")}
AliasPaths == {"/api/error", "/api/new"}
ClientEndpoints == {[ZeroEndpoint EXCEPT !.Type = "static"]}

InitAlias == InitStoreWith(NoFile) /\ InitReqIdle

NextAlias ==
    \/ \E t \in {1} : NoCallRunning /\ BeginLoad(t)
    \/ \E t \in {1}, cfg \in AliasConfigs : NoCallRunning /\ BeginReplace(t, cfg)
    \/ \E t \in {1}, path \in AliasPaths, ep \in AliasEndpoints :
          NoCallRunning /\ BeginUpsert(t, path, ep)
    \/ \E t \in {1}, path \in AliasPaths : NoCallRunning /\ BeginDelete(t, path)
    \/ \E t \in Threads : Lock(t)
    \/ \E t \in Threads : Step(t, IoOutcomes)
    \/ \E t \in Threads, keep \in BOOLEAN : Return(t, keep, FALSE)
    \/ GetConfig
    \/ \E path \in AliasPaths, ep \in ClientEndpoints : ClientWrite(path, ep)

SpecAlias == InitAlias /\ [][NextAlias]_vars

-----------------------------------------------------------------------------
(* SpecConc: several goroutines call the Manager at the same time           *)

\* What a Manager method does to the store (the in-memory Config and the
\* file) when nothing else runs: `s` is the store before, `c` the call with
\* its arguments and the file system's answer.
Loaded(config) == [loaded |-> TRUE, cfg |-> config]

SeqSave(s, config, published, o) ==
    [live |-> IF o = "ok" THEN published ELSE s.live,
     disk |-> WriteFile(s.disk, MarshalIndent(config), o)]

SeqApply(s, c) ==
    CASE c.op = "load" ->
            IF s.disk = NoFile
            THEN SeqSave(s, createDefaultConfig, Loaded(createDefaultConfig), c.io)
            ELSE IF c.io # "ok" \/ s.disk = Garbage THEN s
            ELSE IF validateConfig(Unmarshal(s.disk.doc)) # "ok" THEN s
            ELSE [s EXCEPT !.live = Loaded(Unmarshal(s.disk.doc))]
      [] c.op = "replace" ->
            IF validateConfig(c.cfg) # "ok" THEN s
            ELSE SeqSave(s, c.cfg, Loaded(c.cfg), c.io)
      [] c.op = "upsert" ->
            IF ~s.live.loaded \/ validateEndpointConfig(c.ep) # "ok" THEN s
            ELSE LET config == SetEndpoint(s.live.cfg, c.path, c.ep)
                 IN  SeqSave([s EXCEPT !.live = Loaded(config)], config, Loaded(config), c.io)
      [] c.op = "delete" ->
            IF ~s.live.loaded \/ s.live.cfg.Endpoints.isnil THEN s
            ELSE LET config == DeleteEndpoint(s.live.cfg, c.path)
                 IN  SeqSave([s EXCEPT !.live = Loaded(config)], config, Loaded(config), c.io)
      [] OTHER -> s

RECURSIVE RunSequential(_, _)
RunSequential(s, calls) ==
    IF calls = <<>> THEN s
    ELSE RunSequential(SeqApply(s, Head(calls)), Tail(calls))

ConcConfigs ==
    {[Server |-> [Server1 EXCEPT !.Port = 65535],
      Endpoints |-> MakeMap([p \in {"/api/new"} |-> CondEndpoint(2, 503, "nil")])]}
ConcEndpoints == {ErrorEndpoint(404, "t")}
ConcPaths == {"/api/error", "/api/new"}

\* calls begun so far
Begun == Len(applied) + Cardinality({t \in Threads : pc[t] # "idle"})

InitConc == InitStoreWith(NoFile) /\ InitReqIdle

NextConc ==
    \/ \E t \in Threads : Begun < MaxCalls /\ BeginLoad(t)
    \/ \E t \in Threads, cfg \in ConcConfigs : Begun < MaxCalls /\ BeginReplace(t, cfg)
    \/ \E t \in Threads, path \in ConcPaths, ep \in ConcEndpoints :
          Begun < MaxCalls /\ BeginUpsert(t, path, ep)
    \/ \E t \in Threads, path \in ConcPaths : Begun < MaxCalls /\ BeginDelete(t, path)
    \/ \E t \in Threads : Lock(t)
    \/ \E t \in Threads : Step(t, IoOutcomes)
    \/ \E t \in Threads : Return(t, FALSE, TRUE)

SpecConc == InitConc /\ [][NextConc]_vars

-----------------------------------------------------------------------------
(* The request pipeline: logRequestMiddleware around handleRequest          *)

\* GetEndpointStats that makes a new entry on every call
EnsureEndpoint_AlwaysNew(eps, path) ==
    [p \in DOMAIN eps \cup {path} |-> IF p = path THEN NewEndpointStats ELSE eps[p]]

\* ServerStats.GetEndpointStats: the entry of the path is made if there is none
EnsureEndpoint(eps, path) ==
    [p \in DOMAIN eps \cup {path} |-> IF p \in DOMAIN eps THEN eps[p] ELSE NewEndpointStats]

\* EndpointStats.RecordRequest that counts the histogram only for errors
EndpointRecord_ErrorsOnly(es, statusCode) ==
    [RequestCount |-> es.RequestCount + 1,
     ErrorCount |-> IF statusCode >= 400 THEN es.ErrorCount + 1 ELSE es.ErrorCount,
     StatusCodes |-> IF statusCode >= 400
                     THEN [c \in DOMAIN es.StatusCodes \cup {statusCode} |->
                             IF c \in DOMAIN es.StatusCodes
                             THEN (IF c = statusCode THEN es.StatusCodes[c] + 1
                                   ELSE es.StatusCodes[c])
                             ELSE 1]
                     ELSE es.StatusCodes]

\* EndpointStats.RecordRequest, the counters (the time fields are left out)
EndpointRecord(es, statusCode) ==
    [RequestCount |-> es.RequestCount + 1,
     ErrorCount |-> IF statusCode >= 400 THEN es.ErrorCount + 1 ELSE es.ErrorCount,
     StatusCodes |-> [c \in DOMAIN es.StatusCodes \cup {statusCode} |->
                        IF c \in DOMAIN es.StatusCodes
                        THEN (IF c = statusCode THEN es.StatusCodes[c] + 1
                              ELSE es.StatusCodes[c])
                        ELSE 1]]

\* EndpointStats.GetStats: a copy of the counters and of the histogram
GetStats(es) ==
    [RequestCount |-> es.RequestCount, ErrorCount |-> es.ErrorCount,
     StatusCodes |-> [c \in DOMAIN es.StatusCodes |-> es.StatusCodes[c]]]

\* a GetEndpointStats that hands out new statistics at every call
CountOf_Fresh(path) == 0

\* EndpointStats.ConditionalCount of a path; GetEndpointStats creates the
\* statistics of a path, with a count of 0, when it first asks for them
CountOf(path) == IF path \in DOMAIN ConditionalCount THEN ConditionalCount[path] ELSE 0

\* a test that is one request early
ConditionalStatus_OneEarly(config, count) ==
    IF (count + 1) % config.ErrorEveryN = 0 THEN config.StatusCode ELSE 200

\* handleDynamicEndpoint, `case "conditional_error"`: the test of the count
ConditionalStatus(config, count) ==
    IF count % config.ErrorEveryN = 0 THEN config.StatusCode ELSE 200

\* handleDynamicEndpoint: the status of the endpoint kinds that keep no count
FixedStatus(config) ==
    CASE config.Type = "error" -> config.StatusCode
      [] config.Type = "delay" -> 200
      [] OTHER -> 500

\* addToRequestLog that never trims
addToRequestLog_NoTrim(log, entry) == <<entry>> \o log

\* addToRequestLog that trims at the front
addToRequestLog_DropNewest(log, entry) ==
    IF Len(<<entry>> \o log) > maxLogSize
    THEN SubSeq(<<entry>> \o log, 2, maxLogSize + 1)
    ELSE <<entry>> \o log

\* addToRequestLog: the entry goes to the front, the slice is cut to maxLogSize
addToRequestLog(log, entry) ==
    IF Len(<<entry>> \o log) > maxLogSize
    THEN SubSeq(<<entry>> \o log, 1, maxLogSize)
    ELSE <<entry>> \o log

\* GetRequestLog: a copy of the slice
GetRequestLog == requestLog

InFlight == {r \in Reqs : rpc[r] \notin {"idle", "done"}}

\* A request arrives: the middleware takes startTime, handleRequest takes a
\* snapshot of the Config and looks the path up.  Requests are numbered in
\* the order of arrival; at most `limit` are handled at the same time.
\* `served` is the status http.ServeFile writes for a path with no endpoint.
ReqStart(r, path, served, limit) ==
    /\ rpc[r] = "idle"
    /\ \A q \in Reqs : q < r => rpc[q] # "idle"
    /\ Cardinality(InFlight) < limit
    /\ MutexFree                                   \* GetConfig takes the read lock
    /\ now' = now + 1
    /\ rstart' = [rstart EXCEPT ![r] = now]
    /\ rpath' = [rpath EXCEPT ![r] = path]
    /\ IF m_config = 0
       THEN /\ rstatus' = [rstatus EXCEPT ![r] = 500]
            /\ rcode' = [rcode EXCEPT ![r] = 500]
            /\ rpc' = [rpc EXCEPT ![r] = "record"]
            /\ UNCHANGED <<rep, ConditionalCount, epStats>>
       ELSE LET config == GetConfigCopy(heap[m_config])
            IN  IF path \in Keys(config.Endpoints)
                THEN LET endpointConfig == config.Endpoints.m[path]
                     IN  /\ rep' = [rep EXCEPT ![r] = endpointConfig]
                         \* s.stats.GetEndpointStats(r.URL.Path)
                         /\ ~snap.busy
                         /\ ConditionalCount' =
                               [p \in DOMAIN ConditionalCount \cup {path} |-> CountOf(p)]
                         /\ epStats' = EnsureEndpoint(epStats, path)
                         /\ IF endpointConfig.Type = "conditional_error"
                            THEN /\ rpc' = [rpc EXCEPT ![r] = "inc"]
                                 /\ UNCHANGED <<rstatus, rcode>>
                            ELSE /\ rpc' = [rpc EXCEPT ![r] = "record"]
                                 /\ rstatus' = [rstatus EXCEPT ![r] =
                                                   FixedStatus(endpointConfig)]
                                 /\ rcode' = [rcode EXCEPT ![r] =
                                                   FixedStatus(endpointConfig)]
                ELSE /\ rstatus' = [rstatus EXCEPT ![r] = served]   \* handleStaticFile
                     /\ rcode' = [rcode EXCEPT ![r] = 200]  \* "assume success"
                     /\ rpc' = [rpc EXCEPT ![r] = "record"]
                     /\ UNCHANGED <<rep, ConditionalCount, epStats>>
    /\ UNCHANGED <<requestLog, rcount, rinc, appended, ssStats, snap, extVars>>
    /\ UNCHANGED cfgVars

\* endpointStats.IncrementConditionalCount()
IncrementConditionalCount(r) ==
    /\ rpc[r] = "inc"
    /\ ConditionalCount' = [ConditionalCount EXCEPT ![rpath[r]] = @ + 1]
    /\ rinc' = [rinc EXCEPT ![r] = ConditionalCount[rpath[r]] + 1]
    /\ rpc' = [rpc EXCEPT ![r] = "get"]
    /\ UNCHANGED <<requestLog, now, rpath, rep, rstart, rcount, rstatus, appended,
                   statVars, extVars>>
    /\ UNCHANGED cfgVars

\* count := endpointStats.GetConditionalCount(), and the test of count
GetConditionalCount(r) ==
    /\ rpc[r] = "get"
    /\ rcount' = [rcount EXCEPT ![r] = ConditionalCount[rpath[r]]]
    /\ rstatus' = [rstatus EXCEPT ![r] = ConditionalStatus(rep[r], ConditionalCount[rpath[r]])]
    /\ rcode' = [rcode EXCEPT ![r] = ConditionalStatus(rep[r], ConditionalCount[rpath[r]])]
    /\ rpc' = [rpc EXCEPT ![r] = "record"]
    /\ UNCHANGED <<ConditionalCount, requestLog, now, rpath, rep, rstart, rinc, appended,
                   ssStats, epStats, snap, extVars>>
    /\ UNCHANGED cfgVars

\* ServerStats.RecordRequest that takes only the statuses above 500 for errors
ServerRecord_Above500(ss, statusCode) ==
    [RequestCount |-> ss.RequestCount + 1,
     ErrorCount |-> IF statusCode > 500 THEN ss.ErrorCount + 1 ELSE ss.ErrorCount]

\* ServerStats.RecordRequest, first critical section: the totals
ServerRecord(ss, statusCode) ==
    [RequestCount |-> ss.RequestCount + 1,
     ErrorCount |-> IF statusCode >= 400 THEN ss.ErrorCount + 1 ELSE ss.ErrorCount]

StatsRecordServer(r) ==
    /\ rpc[r] = "record"
    /\ ~snap.busy                                  \* ss.mutex.Lock()
    /\ ssStats' = ServerRecord(ssStats, rcode[r])
    /\ rpc' = [rpc EXCEPT ![r] = "epget"]
    /\ UNCHANGED <<ConditionalCount, requestLog, now, rpath, rep, rstart, rcount, rinc,
                   rstatus, appended, epStats, rcode, snap, extVars>>
    /\ UNCHANGED cfgVars

\* ServerStats.RecordRequest: endpointStats := ss.GetEndpointStats(path)
StatsGetEndpoint(r) ==
    /\ rpc[r] = "epget"
    /\ ~snap.busy                                  \* ss.mutex.Lock()
    /\ epStats' = EnsureEndpoint(epStats, rpath[r])
    /\ ConditionalCount' = [p \in DOMAIN ConditionalCount \cup {rpath[r]} |-> CountOf(p)]
    /\ rpc' = [rpc EXCEPT ![r] = "eprec"]
    /\ UNCHANGED <<requestLog, now, rpath, rep, rstart, rcount, rinc, rstatus, appended,
                   ssStats, rcode, snap, extVars>>
    /\ UNCHANGED cfgVars

\* ServerStats.RecordRequest: endpointStats.RecordRequest(duration, statusCode)
StatsRecordEndpoint(r) ==
    /\ rpc[r] = "eprec"
    /\ epStats' = [epStats EXCEPT ![rpath[r]] = EndpointRecord(@, rcode[r])]
    /\ rpc' = [rpc EXCEPT ![r] = "log"]
    /\ UNCHANGED <<ConditionalCount, requestLog, now, rpath, rep, rstart, rcount, rinc,
                   rstatus, appended, ssStats, rcode, snap, extVars>>
    /\ UNCHANGED cfgVars

\* s.stats.RecordRequest(path, duration, statusCode) with nothing in between
RecordRequest(r) ==
    /\ rpc[r] = "record"
    /\ ~snap.busy
    /\ ssStats' = ServerRecord(ssStats, rcode[r])
    /\ epStats' = [EnsureEndpoint(epStats, rpath[r]) EXCEPT
                      ![rpath[r]] = EndpointRecord(@, rcode[r])]
    /\ ConditionalCount' = [p \in DOMAIN ConditionalCount \cup {rpath[r]} |-> CountOf(p)]
    /\ rpc' = [rpc EXCEPT ![r] = "log"]
    /\ UNCHANGED <<requestLog, now, rpath, rep, rstart, rcount, rinc, rstatus, appended,
                   rcode, snap, extVars>>
    /\ UNCHANGED cfgVars

\* ServerStats.GetAllStats takes the read lock and copies the totals
GetAllStats_Begin ==
    /\ ~snap.busy
    /\ snap' = [busy |-> TRUE, todo |-> DOMAIN epStats,
                RequestCount |-> ssStats.RequestCount, ErrorCount |-> ssStats.ErrorCount,
                Endpoints |-> [p \in {} |-> NewEndpointStats]]
    /\ UNCHANGED <<ConditionalCount, requestLog, now, rpc, rpath, rep, rstart, rcount,
                   rinc, rstatus, appended, ssStats, epStats, rcode, extVars>>
    /\ UNCHANGED cfgVars

\* GetAllStats: endpointStatsCopy := endpointStats.GetStats(), for one path
GetAllStats_Copy(path) ==
    /\ snap.busy
    /\ path \in snap.todo
    /\ snap' = [snap EXCEPT !.todo = @ \ {path},
                            !.Endpoints = [p \in DOMAIN @ \cup {path} |->
                                             IF p = path THEN GetStats(epStats[path])
                                             ELSE @[p]]]
    /\ UNCHANGED <<ConditionalCount, requestLog, now, rpc, rpath, rep, rstart, rcount,
                   rinc, rstatus, appended, ssStats, epStats, rcode, extVars>>
    /\ UNCHANGED cfgVars

\* GetAllStats returns (the copy goes to its caller) and releases the lock
GetAllStats_End ==
    /\ snap.busy
    /\ snap.todo = {}
    /\ snap' = NoSnapshot
    /\ UNCHANGED <<ConditionalCount, requestLog, now, rpc, rpath, rep, rstart, rcount,
                   rinc, rstatus, appended, ssStats, epStats, rcode, extVars>>
    /\ UNCHANGED cfgVars

\* the RequestLogEntry the middleware builds
Entry(r) == [Timestamp |-> rstart[r], Path |-> rpath[r], StatusCode |-> rstatus[r]]

\* back in the middleware: s.addToRequestLog(entry)
LogRequest(r) ==
    /\ rpc[r] = "log"
    /\ requestLog' = addToRequestLog(requestLog, Entry(r))
    /\ appended' = Append(appended, Entry(r))
    /\ rpc' = [rpc EXCEPT ![r] = "done"]
    /\ UNCHANGED <<ConditionalCount, now, rpath, rep, rstart, rcount, rinc, rstatus,
                   statVars, extVars>>
    /\ UNCHANGED cfgVars

\* the tail of the handler and of the middleware with nothing in between:
\* s.stats.RecordRequest(...), then s.addToRequestLog(entry)
RecordAndLog(r) ==
    /\ rpc[r] = "record"
    /\ ~snap.busy
    /\ ssStats' = ServerRecord(ssStats, rcode[r])
    /\ epStats' = [EnsureEndpoint(epStats, rpath[r]) EXCEPT
                      ![rpath[r]] = EndpointRecord(@, rcode[r])]
    /\ ConditionalCount' = [p \in DOMAIN ConditionalCount \cup {rpath[r]} |-> CountOf(p)]
    /\ requestLog' = addToRequestLog(requestLog, Entry(r))
    /\ appended' = Append(appended, Entry(r))
    /\ rpc' = [rpc EXCEPT ![r] = "done"]
    /\ UNCHANGED <<now, rpath, rep, rstart, rcount, rinc, rstatus, rcode, snap, extVars>>
    /\ UNCHANGED cfgVars

-----------------------------------------------------------------------------
(* The server after NewServer and LoadConfig of a file that holds the       *)
(* default configuration with some error_every_n for /api/flaky            *)

FlakyPath == "/api/flaky"
DynamicPaths == {FlakyPath, "/api/error"}
ReqPaths == DynamicPaths \cup {"/index.html"}
ServeFileStatus == {200, 404}

ServingConfig(n) == [createDefaultConfig EXCEPT !.Endpoints.m[FlakyPath].ErrorEveryN = n]

InitServing(n) ==
    /\ heap = [r \in Refs |-> IF r = 1 THEN ServingConfig(n) ELSE ZeroConfig]
    /\ m_config = 1
    /\ disk = JsonFile(MarshalIndent(ServingConfig(n)))
    /\ mutex = 0
    /\ pc = [t \in Threads |-> "idle"]
    /\ call = [t \in Threads |-> NoCall]
    /\ io = [t \in Threads |-> "ok"]
    /\ data = [t \in Threads |-> NoData]
    /\ res = [t \in Threads |-> "none"]
    /\ spawned = [t \in Threads |-> FALSE]
    /\ pre = [t \in Threads |-> NoPre]
    /\ held = NoHeld
    /\ applied = <<>>
    /\ start0 = [live |-> Loaded(ServingConfig(n)), disk |-> disk]
    /\ anyFailed = FALSE

\* error_every_n of the endpoint under test
N == heap[m_config].Endpoints.m[FlakyPath].ErrorEveryN

(* SpecSeq: the requests arrive strictly one after another *)
InitSeq == (\E n \in 1..MaxN : InitServing(n)) /\ InitReqIdle

NextSeq ==
    \/ \E r \in Reqs, path \in ReqPaths, served \in ServeFileStatus :
          ReqStart(r, path, served, 1)
    \/ \E r \in Reqs : IncrementConditionalCount(r)
    \/ \E r \in Reqs : GetConditionalCount(r)
    \/ \E r \in Reqs : RecordAndLog(r)

SpecSeq == InitSeq /\ [][NextSeq]_vars

(* SpecReq: up to NThreads requests are handled at the same time *)
InitReq == InitServing(2) /\ InitReqIdle

NextReq ==
    \/ \E r \in Reqs, path \in DynamicPaths :
          r <= MaxConcReq /\ ReqStart(r, path, 200, NThreads)
    \/ \E r \in Reqs : IncrementConditionalCount(r)
    \/ \E r \in Reqs : GetConditionalCount(r)
    \/ \E r \in Reqs : RecordAndLog(r)

SpecReq == InitReq /\ [][NextReq]_vars

(* SpecStats: concurrent requests whose statistics are recorded one        *)
(* critical section at a time, next to GetAllStats                         *)
ErrorPath == "/api/error"
StatPaths == {ErrorPath, "/index.html"}

InitStats == InitServing(3) /\ InitReqIdle

NextStats ==
    \/ \E r \in Reqs, path \in StatPaths :
          r <= MaxStatReq /\ ReqStart(r, path, 404, NThreads)
    \/ \E r \in Reqs : StatsRecordServer(r)
    \/ \E r \in Reqs : StatsGetEndpoint(r)
    \/ \E r \in Reqs : StatsRecordEndpoint(r)
    \/ \E r \in Reqs : LogRequest(r)
    \/ GetAllStats_Begin
    \/ \E path \in StatPaths : GetAllStats_Copy(path)
    \/ GetAllStats_End

SpecStats == InitStats /\ [][NextStats]_vars

-----------------------------------------------------------------------------
(* The life cycle: Server.Start, Server.Stop, Watcher.Start, Watcher.Stop  *)
(* and the goroutines they start.  Start and Stop hold Server.mu from      *)
(* beginning to end; Stop is two steps, because the handlers of the /ws    *)
(* connections take only wsConnectionsMu and run while Shutdown waits.     *)

\* the goroutines inside broadcastToWebSockets, which hold the read lock
Readers == {b \in Bcasters : bc[b].pc = "iter"}

\* Start that omits the test of isRunning
AlreadyRunning_Never == FALSE

\* Server.Start: `if s.isRunning`
AlreadyRunning == isRunning

Returned(op, ran, err) ==
    /\ lop' = op
    /\ lran' = ran
    /\ lres' = err
    /\ lcount' = lcount + 1

\* Server.Start, with Watcher.Start inside; fsok: fsnotify could watch the directory
Start(fsok) ==
    /\ lpc = "idle"
    /\ lcount < MaxLife
    /\ IF AlreadyRunning
       THEN /\ Returned("start", isRunning, "server is already running")
            /\ UNCHANGED <<isRunning, httpServer, listeners, w_isRunning, watchTasks>>
       ELSE IF m_config = 0
       THEN /\ Returned("start", isRunning, "no configuration loaded")
            /\ UNCHANGED <<isRunning, httpServer, listeners, w_isRunning, watchTasks>>
       ELSE IF ~w_isRunning /\ ~fsok
       THEN /\ Returned("start", isRunning, "failed to start config watcher")
            /\ httpServer' = "new"
            /\ UNCHANGED <<isRunning, listeners, w_isRunning, watchTasks>>
       ELSE /\ Returned("start", isRunning, "ok")
            /\ w_isRunning' = TRUE
            /\ watchTasks' = IF w_isRunning THEN watchTasks ELSE watchTasks + 1
            /\ httpServer' = "serving"
            /\ listeners' = listeners + 1
            /\ isRunning' = TRUE
    /\ UNCHANGED <<stopChan, lpc, wsVars, pubVars>>
    /\ UNCHANGED <<ConditionalCount, requestLog, now, rpc, rpath, rep, rstart, rcount,
                   rinc, rstatus, appended, statVars, auxVars>>
    /\ UNCHANGED cfgVars

\* Server.Stop up to the call of Shutdown: Watcher.Stop, then every connection is
\* closed and the map replaced.  close() of a closed channel panics.
Stop_Clear ==
    /\ lpc = "idle"
    /\ lcount < MaxLife
    /\ IF ~isRunning
       THEN /\ Returned("stop", FALSE, "ok")
            /\ UNCHANGED <<w_isRunning, stopChan, lpc, wsConnections, health>>
       ELSE IF w_isRunning /\ stopChan = "closed"
       THEN /\ lpc' = "panic"
            /\ UNCHANGED <<w_isRunning, stopChan, wsConnections, health,
                           lop, lran, lres, lcount>>
       ELSE /\ Readers = {}
            /\ stopChan' = IF w_isRunning THEN "closed" ELSE stopChan
            /\ w_isRunning' = FALSE
            /\ health' = [c \in Conns |-> IF c \in wsConnections THEN "dead" ELSE health[c]]
            /\ wsConnections' = {}
            /\ lpc' = "shutdown"
            /\ UNCHANGED <<lop, lran, lres, lcount>>
    /\ UNCHANGED <<isRunning, httpServer, listeners, watchTasks,
                   wpc, recv, wsFault, dropped, pubVars>>
    /\ UNCHANGED <<ConditionalCount, requestLog, now, rpc, rpath, rep, rstart, rcount,
                   rinc, rstatus, appended, statVars, auxVars>>
    /\ UNCHANGED cfgVars

\* Server.Stop from Shutdown on; intime: the requests in flight ended within the
\* 10 seconds of the context.  Shutdown closes the listener before it waits.
Stop_Shutdown(intime) ==
    /\ lpc = "shutdown"
    /\ httpServer' = "shut"
    /\ listeners' = IF httpServer = "serving" THEN listeners - 1 ELSE listeners
    /\ IF intime
       THEN /\ isRunning' = FALSE
            /\ Returned("stop", TRUE, "ok")
       ELSE /\ isRunning' = isRunning
            /\ Returned("stop", TRUE, "failed to shutdown server")
    /\ lpc' = "idle"
    /\ UNCHANGED <<w_isRunning, stopChan, watchTasks, wsVars, pubVars>>
    /\ UNCHANGED <<ConditionalCount, requestLog, now, rpc, rpath, rep, rstart, rcount,
                   rinc, rstatus, appended, statVars, auxVars>>
    /\ UNCHANGED cfgVars

\* Watcher.watch: the goroutine returns when it finds stopChan closed
Watch_Stopped ==
    /\ lpc # "panic"
    /\ watchTasks > 0
    /\ stopChan = "closed"
    /\ watchTasks' = watchTasks - 1
    /\ UNCHANGED <<isRunning, httpServer, listeners, w_isRunning, stopChan,
                   lpc, lop, lran, lres, lcount, wsVars, pubVars>>
    /\ UNCHANGED <<ConditionalCount, requestLog, now, rpc, rpath, rep, rstart, rcount,
                   rinc, rstatus, appended, statVars, auxVars>>
    /\ UNCHANGED cfgVars

\* handleWebSocket: the listener accepted the request and Upgrade hijacked the
\* connection, which Shutdown neither closes nor waits for.  Connections are
\* numbered in the order of their Upgrade.
Upgrade(c) ==
    /\ lpc # "panic"
    /\ httpServer = "serving"
    /\ ~wsFault
    /\ wpc[c] = "none"
    /\ \A a \in Conns : a < c => wpc[a] # "none"
    /\ wpc' = [wpc EXCEPT ![c] = "upgraded"]
    /\ UNCHANGED <<wsConnections, recv, health, wsFault, dropped, lifeVars, pubVars>>
    /\ UNCHANGED <<ConditionalCount, requestLog, now, rpc, rpath, rep, rstart, rcount,
                   rinc, rstatus, appended, statVars, auxVars>>
    /\ UNCHANGED cfgVars

\* Server.addWebSocketConnection, called by handleWebSocket after Upgrade
addWebSocketConnection(c) ==
    /\ lpc # "panic"
    /\ ~wsFault
    /\ wpc[c] = "upgraded"
    /\ Readers = {}
    /\ wpc' = [wpc EXCEPT ![c] = "config"]
    /\ wsConnections' = wsConnections \cup {c}
    /\ UNCHANGED <<recv, health, wsFault, dropped, lifeVars, pubVars>>
    /\ UNCHANGED <<ConditionalCount, requestLog, now, rpc, rpath, rep, rstart, rcount,
                   rinc, rstatus, appended, statVars, auxVars>>
    /\ UNCHANGED cfgVars

\* a message as the peer receives it; WriteJSON marshals the Config that Data
\* points to when it writes
Message(type, seq, obj) ==
    [type |-> type, seq |-> seq, ver |-> IF obj = 0 THEN 0 ELSE objVer[obj]]

\* conn.WriteJSON(msg) returned: the peer has the message, or the write failed.
\* A write to a peer that accepts no data does not return.
WriteJSON(c, msg) ==
    /\ health[c] # "stalled"
    /\ recv' = IF health[c] = "ok" THEN [recv EXCEPT ![c] = Append(@, msg)] ELSE recv

\* sendInitialData, first half: the Config (GetConfig is not nil once loaded)
SendConfig(c) ==
    /\ lpc # "panic"
    /\ ~wsFault
    /\ wpc[c] = "config"
    /\ IF m_config # 0 THEN WriteJSON(c, Message("config", 0, liveObj)) ELSE recv' = recv
    /\ wpc' = [wpc EXCEPT ![c] = "stats"]
    /\ UNCHANGED <<wsConnections, health, wsFault, dropped, lifeVars, pubVars>>
    /\ UNCHANGED <<ConditionalCount, requestLog, now, rpc, rpath, rep, rstart, rcount,
                   rinc, rstatus, appended, statVars, auxVars>>
    /\ UNCHANGED cfgVars

\* sendInitialData, second half: the statistics
SendStats(c) ==
    /\ lpc # "panic"
    /\ ~wsFault
    /\ wpc[c] = "stats"
    /\ WriteJSON(c, Message("stats", 0, 0))
    /\ wpc' = [wpc EXCEPT ![c] = "reading"]
    /\ UNCHANGED <<wsConnections, health, wsFault, dropped, lifeVars, pubVars>>
    /\ UNCHANGED <<ConditionalCount, requestLog, now, rpc, rpath, rep, rstart, rcount,
                   rinc, rstatus, appended, statVars, auxVars>>
    /\ UNCHANGED cfgVars

\* handleWebSocket: ReadJSON returned an error (the peer left, or the connection
\* was closed), the deferred removeWebSocketConnection and conn.Close() run
removeWebSocketConnection(c) ==
    /\ lpc # "panic"
    /\ ~wsFault
    /\ wpc[c] = "reading"
    /\ Readers = {}
    /\ wpc' = [wpc EXCEPT ![c] = "gone"]
    /\ wsConnections' = wsConnections \ {c}
    /\ health' = [health EXCEPT ![c] = "dead"]
    /\ dropped' = [dropped EXCEPT ![c] = IF c \in wsConnections THEN 0 - 1 ELSE @]
    /\ UNCHANGED <<recv, wsFault, lifeVars, pubVars>>
    /\ UNCHANGED <<ConditionalCount, requestLog, now, rpc, rpath, rep, rstart, rcount,
                   rinc, rstatus, appended, statVars, auxVars>>
    /\ UNCHANGED cfgVars

InitLife == InitServing(3) /\ InitReqIdle

NextLife ==
    \/ \E fsok \in BOOLEAN : Start(fsok)
    \/ Stop_Clear
    \/ \E intime \in BOOLEAN : Stop_Shutdown(intime)
    \/ Watch_Stopped
    \/ \E c \in Conns : Upgrade(c)
    \/ \E c \in Conns : addWebSocketConnection(c)
    \/ \E c \in Conns : SendConfig(c)
    \/ \E c \in Conns : SendStats(c)
    \/ \E c \in Conns : removeWebSocketConnection(c)

SpecLife == InitLife /\ [][NextLife]_vars

-----------------------------------------------------------------------------
(* Publishing: the mutators of the Manager start `go m.notifyWatchers`,    *)
(* whose callback onConfigChange broadcasts config_updated; the middleware *)
(* broadcasts request_log.  A Config is identified by the object and by    *)
(* the mutation that last wrote it.                                        *)

\* the broadcaster a new message is given to: each publishes one message
FreeBroadcaster(b) ==
    /\ bc[b].pc = "idle"
    /\ \A a \in Bcasters : a < b => bc[a].pc # "idle"

Spawn(b, type, seq, obj) ==
    bc' = [bc EXCEPT ![b] = [NoBroadcast EXCEPT !.pc = "spawned", !.type = type,
                                                   !.seq = seq, !.obj = obj]]

\* the subscribers a publish should reach: those in the set whose peer is well
Audience == {c \in wsConnections : health[c] = "ok"}

\* Manager.UpdateConfig that succeeds: the caller's Config becomes the live
\* object, `go m.notifyWatchers(newConfig)`
UpdateConfig_Publish(b) ==
    /\ lpc # "panic" /\ ~wsFault
    /\ FreeBroadcaster(b)
    /\ cfgSeq < MaxPub
    /\ cfgSeq' = cfgSeq + 1
    /\ liveObj' = Len(objVer) + 1
    /\ objVer' = Append(objVer, cfgSeq + 1)
    /\ Spawn(b, "config_updated", cfgSeq + 1, Len(objVer) + 1)
    /\ pubs' = Append(pubs, [notified |-> TRUE, audience |-> Audience])
    /\ UNCHANGED <<wsVars, lifeVars>>
    /\ UNCHANGED <<ConditionalCount, requestLog, now, rpc, rpath, rep, rstart, rcount,
                   rinc, rstatus, appended, statVars, auxVars>>
    /\ UNCHANGED cfgVars

\* Manager.UpdateEndpoint / RemoveEndpoint that succeeds: the live object is
\* changed in place, `go m.notifyWatchers(m.config)`
UpdateEndpoint_Publish(b) ==
    /\ lpc # "panic" /\ ~wsFault
    /\ FreeBroadcaster(b)
    /\ cfgSeq < MaxPub
    /\ cfgSeq' = cfgSeq + 1
    /\ objVer' = [objVer EXCEPT ![liveObj] = cfgSeq + 1]
    /\ Spawn(b, "config_updated", cfgSeq + 1, liveObj)
    /\ pubs' = Append(pubs, [notified |-> TRUE, audience |-> Audience])
    /\ UNCHANGED <<liveObj, wsVars, lifeVars>>
    /\ UNCHANGED <<ConditionalCount, requestLog, now, rpc, rpath, rep, rstart, rcount,
                   rinc, rstatus, appended, statVars, auxVars>>
    /\ UNCHANGED cfgVars

\* Watcher.reloadConfig: Manager.LoadConfig makes the file's Config the live
\* object; LoadConfig does not call notifyWatchers
Reload_Publish ==
    /\ lpc # "panic" /\ ~wsFault
    /\ w_isRunning
    /\ cfgSeq < MaxPub
    /\ cfgSeq' = cfgSeq + 1
    /\ liveObj' = Len(objVer) + 1
    /\ objVer' = Append(objVer, cfgSeq + 1)
    /\ pubs' = Append(pubs, [notified |-> FALSE, audience |-> Audience])
    /\ UNCHANGED <<bc, wsVars, lifeVars>>
    /\ UNCHANGED <<ConditionalCount, requestLog, now, rpc, rpath, rep, rstart, rcount,
                   rinc, rstatus, appended, statVars, auxVars>>
    /\ UNCHANGED cfgVars

\* logRequestMiddleware after addToRequestLog: the request is about to
\* broadcast its record
Request_Publish(b) ==
    /\ lpc # "panic" /\ ~wsFault
    /\ httpServer = "serving"
    /\ FreeBroadcaster(b)
    /\ Spawn(b, "request_log", 0, 0)
    /\ UNCHANGED <<liveObj, objVer, cfgSeq, pubs, wsVars, lifeVars>>
    /\ UNCHANGED <<ConditionalCount, requestLog, now, rpc, rpath, rep, rstart, rcount,
                   rinc, rstatus, appended, statVars, auxVars>>
    /\ UNCHANGED cfgVars

\* broadcastToWebSockets: RLock, and the range over the map begins
Broadcast_Begin(b) ==
    /\ lpc # "panic" /\ ~wsFault
    /\ bc[b].pc = "spawned"
    /\ bc' = [bc EXCEPT ![b].pc = "iter", ![b].todo = wsConnections]
    /\ UNCHANGED <<liveObj, objVer, cfgSeq, pubs, wsVars, lifeVars>>
    /\ UNCHANGED <<ConditionalCount, requestLog, now, rpc, rpath, rep, rstart, rcount,
                   rinc, rstatus, appended, statVars, auxVars>>
    /\ UNCHANGED cfgVars

\* broadcast that leaves a connection in the map when the write to it failed
DropFailed_Keep(conns, c) == conns

\* broadcastToWebSockets: `delete(s.wsConnections, conn)`
DropFailed(conns, c) == conns \ {c}

\* broadcastToWebSockets, one turn of the loop: WriteJSON to a connection that
\* is still in the map; when it fails the connection is deleted and closed.
\* The delete is done under the read lock: when another goroutine ranges over
\* the map at that time, the runtime may stop the process.
Broadcast_Write(b, c, fatal) ==
    /\ lpc # "panic" /\ ~wsFault
    /\ bc[b].pc = "iter"
    /\ c \in bc[b].todo \cap wsConnections
    /\ WriteJSON(c, Message(bc[b].type, bc[b].seq, bc[b].obj))
    /\ IF health[c] = "ok"
       THEN /\ bc' = [bc EXCEPT ![b].todo = @ \ {c}, ![b].sent = @ \cup {c}]
            /\ ~fatal
            /\ UNCHANGED <<wsConnections, dropped, wsFault>>
       ELSE /\ bc' = [bc EXCEPT ![b].todo = @ \ {c}, ![b].failed = @ \cup {c}]
            /\ wsConnections' = DropFailed(wsConnections, c)
            /\ dropped' = [dropped EXCEPT ![c] = b]
            /\ wsFault' = fatal
            /\ fatal => Readers # {b}
    /\ UNCHANGED <<wpc, health, liveObj, objVer, cfgSeq, pubs, lifeVars>>
    /\ UNCHANGED <<ConditionalCount, requestLog, now, rpc, rpath, rep, rstart, rcount,
                   rinc, rstatus, appended, statVars, auxVars>>
    /\ UNCHANGED cfgVars

\* broadcastToWebSockets returns: the range is over, RUnlock
Broadcast_End(b) ==
    /\ lpc # "panic" /\ ~wsFault
    /\ bc[b].pc = "iter"
    /\ bc[b].todo \cap wsConnections = {}
    /\ bc' = [bc EXCEPT ![b].pc = "done"]
    /\ UNCHANGED <<liveObj, objVer, cfgSeq, pubs, wsVars, lifeVars>>
    /\ UNCHANGED <<ConditionalCount, requestLog, now, rpc, rpath, rep, rstart, rcount,
                   rinc, rstatus, appended, statVars, auxVars>>
    /\ UNCHANGED cfgVars

\* the peer of a connection stops answering: writes to it fail from now on
Peer_Dies(c) ==
    /\ lpc # "panic" /\ ~wsFault
    /\ wpc[c] \in {"config", "stats", "reading"}
    /\ health[c] = "ok"
    /\ health' = [health EXCEPT ![c] = "dead"]
    /\ UNCHANGED <<wsConnections, wpc, recv, wsFault, dropped, lifeVars, pubVars>>
    /\ UNCHANGED <<ConditionalCount, requestLog, now, rpc, rpath, rep, rstart, rcount,
                   rinc, rstatus, appended, statVars, auxVars>>
    /\ UNCHANGED cfgVars

\* the peer of a connection stops reading while the connection stays open:
\* writes to it block (no write deadline is set on the connection)
Peer_Stalls(c) ==
    /\ lpc # "panic" /\ ~wsFault
    /\ wpc[c] \in {"config", "stats", "reading"}
    /\ health[c] = "ok"
    /\ health' = [health EXCEPT ![c] = "stalled"]
    /\ UNCHANGED <<wsConnections, wpc, recv, wsFault, dropped, lifeVars, pubVars>>
    /\ UNCHANGED <<ConditionalCount, requestLog, now, rpc, rpath, rep, rstart, rcount,
                   rinc, rstatus, appended, statVars, auxVars>>
    /\ UNCHANGED cfgVars

\* the server after Start returned nil
InitLifeServing ==
    /\ isRunning = TRUE
    /\ httpServer = "serving"
    /\ listeners = 1
    /\ w_isRunning = TRUE
    /\ stopChan = "open"
    /\ watchTasks = 1
    /\ lpc = "idle"
    /\ lop = "start"
    /\ lran = FALSE
    /\ lres = "ok"
    /\ lcount = 1

InitWs ==
    InitServing(3) /\ InitReqCore /\ InitWsIdle /\ InitLifeServing /\ InitPubIdle /\ InitAuxIdle

Handlers ==
    \/ \E c \in Conns : Upgrade(c)
    \/ \E c \in Conns : addWebSocketConnection(c)
    \/ \E c \in Conns : SendConfig(c)
    \/ \E c \in Conns : SendStats(c)
    \/ \E c \in Conns : removeWebSocketConnection(c)

Broadcasts ==
    \/ \E b \in Bcasters : Broadcast_Begin(b)
    \/ \E b \in Bcasters, c \in Conns, fatal \in BOOLEAN : Broadcast_Write(b, c, fatal)
    \/ \E b \in Bcasters : Broadcast_End(b)

NextWs ==
    \/ Handlers
    \/ Broadcasts
    \/ \E b \in Bcasters : Request_Publish(b)
    \/ \E c \in Conns : Peer_Dies(c)
    \/ \E c \in Conns : Peer_Stalls(c)

SpecWs == InitWs /\ [][NextWs]_vars

\* handleWebSocket from Upgrade to the read loop in one step: the connection is
\* added and its peer has the two initial messages
Connect(c) ==
    /\ lpc # "panic" /\ ~wsFault
    /\ httpServer = "serving"
    /\ wpc[c] = "none"
    /\ \A a \in Conns : a < c => wpc[a] # "none"
    /\ Readers = {}
    /\ wpc' = [wpc EXCEPT ![c] = "reading"]
    /\ wsConnections' = wsConnections \cup {c}
    /\ recv' = [recv EXCEPT ![c] = <<Message("config", 0, liveObj), Message("stats", 0, 0)>>]
    /\ UNCHANGED <<health, wsFault, dropped, lifeVars, pubVars>>
    /\ UNCHANGED <<ConditionalCount, requestLog, now, rpc, rpath, rep, rstart, rcount,
                   rinc, rstatus, appended, statVars, auxVars>>
    /\ UNCHANGED cfgVars

\* SpecBroadcast: broadcasts to subscribers that are in their read loop
NextBroadcast ==
    \/ \E c \in Conns : Connect(c)
    \/ \E c \in Conns : removeWebSocketConnection(c)
    \/ Broadcasts
    \/ \E b \in Bcasters : Request_Publish(b)
    \/ \E c \in Conns : Peer_Dies(c)
    \/ \E c \in Conns : Peer_Stalls(c)

SpecBroadcast == InitWs /\ [][NextBroadcast]_vars

\* the Go scheduler runs every goroutine that can take a step
Broadcast(b) ==
    \/ Broadcast_Begin(b)
    \/ \E c \in Conns, fatal \in BOOLEAN : Broadcast_Write(b, c, fatal)
    \/ Broadcast_End(b)

Handler(c) ==
    \/ addWebSocketConnection(c)
    \/ SendConfig(c)
    \/ SendStats(c)

Scheduled ==
    /\ \A b \in Bcasters : WF_vars(Broadcast(b))
    /\ \A c \in Conns : WF_vars(Handler(c))

SpecWsFair == SpecWs /\ Scheduled

\* SpecEvents: the mutations of the Config and the watcher's reload, with
\* subscribers whose peers stay well
NextEvents ==
    \/ Handlers
    \/ Broadcasts
    \/ \E b \in Bcasters : UpdateConfig_Publish(b)
    \/ \E b \in Bcasters : UpdateEndpoint_Publish(b)
    \/ Reload_Publish

SpecEvents == InitWs /\ [][NextEvents]_vars

SpecEventsFair == SpecEvents /\ Scheduled

-----------------------------------------------------------------------------
(* Claims about the store, checked under SpecStore *)

\* the running call of thread t is about to return (everything but the
\* deferred Unlock has happened)
Returning(t) == pc[t] = "ret"

\* the input of the running call fails the validation the method applies
InputFailsValidation(t) ==
    \/ call[t].op = "replace" /\ validateConfig(pre[t].arg) # "ok"
    \/ call[t].op = "upsert" /\ validateEndpointConfig(call[t].ep) # "ok"

\* C3: when UpdateConfig or UpdateEndpoint is called with input that fails
\* validation, the call returns an error, the in-memory Config and the file
\* are what they were before the call, and no notification is started.
C3_InvalidInputChangesNothing ==
    \A t \in Threads :
        (Returning(t) /\ InputFailsValidation(t)) =>
            /\ res[t] # "ok"
            /\ LiveValue = pre[t].live
            /\ disk = pre[t].disk
            /\ ~spawned[t]

\* a loaded store has rejected an invalid endpoint, and a full Config with
\* port 70000
C3_Witness ==
    \E t \in Threads :
        /\ Returning(t)
        /\ InputFailsValidation(t)
        /\ pre[t].live.loaded
        /\ \/ call[t].op = "upsert"
           \/ call[t].op = "replace" /\ pre[t].arg.Server.Port = 70000

\* C4: when the write of the file fails, a mutator returns the error and the
\* in-memory Config is what it was before the call.
C4_FailedSaveKeepsMemory ==
    \A t \in Threads :
        (Returning(t) /\ call[t].op \in Mutators /\ res[t] = "ioerror") =>
            LiveValue = pre[t].live

\* C5: between calls the live Config passes validateConfig (port in range,
\* host and static directory non-empty, every endpoint valid, no empty path).
C5_LiveConfigValid ==
    (NoCallRunning /\ m_config # 0) => validateConfig(heap[m_config]) = "ok"

\* C6: after a run of successful calls ending in a mutator, loading the file
\* (parse and validate) succeeds and gives the in-memory Config.
C6_FileReloadsToMemory ==
    \A t \in Threads :
        (Returning(t) /\ call[t].op \in Mutators /\ res[t] = "ok" /\ ~anyFailed) =>
            /\ disk.kind = "json"
            /\ validateConfig(Unmarshal(disk.doc)) = "ok"
            /\ Unmarshal(disk.doc) = heap[m_config]

-----------------------------------------------------------------------------
(* Claims about the Configs callers hold, checked under SpecAlias *)

ClientWrites == \E path \in AliasPaths, ep \in ClientEndpoints : ClientWrite(path, ep)

\* C7: what GetConfig returns is a deep copy: a write by the caller to a
\* snapshot, or to a Config it passed to UpdateConfig before, never changes
\* the live Config, and a snapshot the caller leaves alone never changes.
C7_CallerWritesNeverReachLive ==
    [][ /\ ClientWrites => LiveValue' = LiveValue
        /\ (held.kind = "snap" /\ held' = held /\ ~ClientWrites)
              => heap'[held.ref] = heap[held.ref] ]_vars

-----------------------------------------------------------------------------
(* Claims about concurrent callers, checked under SpecConc *)

Quiet == \A t \in Threads : pc[t] \in {"idle", "lock"}

LastTwo == SubSeq(applied, Len(applied) - 1, Len(applied))

TwoUpsertsJustReturned ==
    /\ Len(applied) >= 2
    /\ \A i \in 1..2 : LastTwo[i].op = "upsert" /\ LastTwo[i].res = "ok"
    /\ LastTwo[1].path # LastTwo[2].path

HasEndpoint(config, c) ==
    /\ c.path \in Keys(config.Endpoints)
    /\ config.Endpoints.m[c.path] = c.ep

\* C8: the calls that change the Config run one at a time: whenever no call
\* is inside a method, memory and file are what the calls returned so far
\* produce when run one after the other in the order they returned, and two
\* upserts of different paths that both succeeded are both in the Config.
C8_MutatorsSerialized ==
    Quiet =>
        /\ StoreState = RunSequential(start0, applied)
        /\ TwoUpsertsJustReturned =>
              \A i \in 1..2 : /\ LiveValue.loaded
                              /\ HasEndpoint(LiveValue.cfg, LastTwo[i])

C8_Witness ==
    /\ NoCallRunning
    /\ TwoUpsertsJustReturned
    /\ LastTwo[1].overlap
    /\ \A i \in 1..2 : HasEndpoint(LiveValue.cfg, LastTwo[i])
    /\ disk.kind = "json"
    /\ \A i \in 1..2 : HasEndpoint(Unmarshal(disk.doc), LastTwo[i])

-----------------------------------------------------------------------------
(* Claims about the conditional_error endpoint *)

Tested(r) == rpc[r] \in {"record", "log", "done"} /\ rpath[r] = FlakyPath

\* the position of request r among the requests of the endpoint
Position(r) == Cardinality({q \in Reqs : q <= r /\ rpc[q] # "idle" /\ rpath[q] = FlakyPath})

ErrorsSeen == Cardinality({r \in Reqs : Tested(r) /\ rstatus[r] = 503})
Completed == Cardinality({r \in Reqs : Tested(r)})

\* C1 (under SpecSeq): requests that come one after the other: the i-th
\* request of a conditional_error endpoint with error_every_n = N answers
\* the configured status exactly when i is a multiple of N and 200
\* otherwise, so M requests see floor(M / N) errors.
C1_EveryNthRequestFails ==
    /\ \A r \in Reqs : Tested(r) =>
          rstatus[r] = (IF Position(r) % N = 0 THEN 503 ELSE 200)
    /\ InFlight = {} => ErrorsSeen = Completed \div N

C1_Witness ==
    /\ N = 2
    /\ \A r \in Reqs : rpc[r] = "done"
    /\ Completed >= 4
    /\ ErrorsSeen = 2
    /\ \E r \in Reqs : Tested(r) /\ Position(r) = 4 /\ rstatus[r] = 503

\* C2 (under SpecReq): requests handled at the same time: every request
\* tests the value its own increment produced, so a request answers the
\* error status exactly when its increment took the count to a multiple of
\* N, and M completed requests see floor(M / N) errors.
C2_IncrementAndTestAtomic ==
    /\ \A r \in Reqs : Tested(r) =>
          /\ rcount[r] = rinc[r]
          /\ rstatus[r] = (IF rinc[r] % N = 0 THEN 503 ELSE 200)
    /\ InFlight = {} => ErrorsSeen = Completed \div N

-----------------------------------------------------------------------------
(* Claims about the request history, checked under SpecReq *)

\* the last k of a sequence, the latest first
RECURSIVE NewestFirst(_, _)
NewestFirst(seq, k) ==
    IF k = 0 \/ seq = <<>> THEN <<>>
    ELSE <<seq[Len(seq)]>> \o NewestFirst(SubSeq(seq, 1, Len(seq) - 1), k - 1)

\* C9: the request history never holds more than maxLogSize records,
\* whatever the interleaving of the requests.
C9_HistoryBounded == Len(requestLog) <= maxLogSize

\* the history overflowed, and requests finished in another order than they came
C9_Witness ==
    /\ Len(appended) > maxLogSize
    /\ Len(requestLog) = maxLogSize
    /\ \E i \in 1..(Len(appended) - 1) : appended[i].Timestamp > appended[i + 1].Timestamp

\* C10: after n appends the history read by GetRequestLog is the last
\* min(n, maxLogSize) records appended, the latest first: an append that
\* overflows drops the oldest record and keeps the others as they were.
C10_HistoryIsLatestFirst ==
    GetRequestLog = NewestFirst(appended, maxLogSize)

C10_Witness ==
    /\ Len(appended) = maxLogSize + 2
    /\ Len(GetRequestLog) = maxLogSize
    /\ GetRequestLog[1] = appended[Len(appended)]
    /\ GetRequestLog[maxLogSize] = appended[3]

-----------------------------------------------------------------------------
(* Claims about the default configuration, checked under SpecStore *)

LoadedMissingFile(t) ==
    Returning(t) /\ call[t].op = "load" /\ pre[t].disk = NoFile /\ res[t] = "ok"

\* the default Config as the specification words it
DefaultEndpoint(path) ==
    CASE path = "/api/error" ->
            [ZeroEndpoint EXCEPT !.Type = "error", !.StatusCode = 500,
                                 !.Message = "Internal Server Error"]
      [] path = "/api/delay" ->
            [ZeroEndpoint EXCEPT !.Type = "delay", !.DelayMs = 2000, !.Response = "obj"]
      [] path = "/api/flaky" ->
            [ZeroEndpoint EXCEPT !.Type = "conditional_error", !.ErrorEveryN = 3,
                                 !.StatusCode = 503, !.SuccessResponse = "obj"]

IsTheDefault(config) ==
    /\ config.Server = [Port |-> 8080, Host |-> "0.0.0.0", StaticDir |-> "./static"]
    /\ ~config.Endpoints.isnil
    /\ Keys(config.Endpoints) = {"/api/error", "/api/delay", "/api/flaky"}
    /\ \A path \in Keys(config.Endpoints) : config.Endpoints.m[path] = DefaultEndpoint(path)

\* C20: when LoadConfig finds no file and succeeds, the live Config is the
\* default one (port 8080, host 0.0.0.0, static dir ./static, /api/error =
\* error 500, /api/delay = delay 2000 ms, /api/flaky = conditional_error
\* every 3rd with 503), the file exists and reads back as exactly that
\* Config, and the default Config passes validation.
C20_MissingFileGivesDefault ==
    \A t \in Threads :
        LoadedMissingFile(t) =>
            /\ LiveValue.loaded
            /\ IsTheDefault(LiveValue.cfg)
            /\ disk.kind = "json"
            /\ IsTheDefault(Unmarshal(disk.doc))
            /\ validateConfig(LiveValue.cfg) = "ok"

C20_Witness == \E t \in Threads : LoadedMissingFile(t) /\ disk.kind = "json"

-----------------------------------------------------------------------------
(* Claims about the statistics, checked under SpecStats *)

RECURSIVE SumOver(_, _)
SumOver(f, keys) ==
    IF keys = {} THEN 0
    ELSE LET k == CHOOSE k \in keys : TRUE IN f[k] + SumOver(f, keys \ {k})

HistogramSum(es) == SumOver(es.StatusCodes, DOMAIN es.StatusCodes)

Consistent(es) ==
    /\ es.ErrorCount <= es.RequestCount
    /\ HistogramSum(es) = es.RequestCount

\* C11: in every statistics snapshot (the copies GetAllStats takes, one
\* endpoint after the other, while requests record), and in the statistics
\* themselves, every endpoint has error_count <= request_count and a
\* histogram whose counts add up to request_count.
C11_EndpointStatsConsistent ==
    /\ \A p \in DOMAIN snap.Endpoints : Consistent(snap.Endpoints[p])
    /\ \A p \in DOMAIN epStats : Consistent(epStats[p])

\* a snapshot holds an endpoint with errors while another record is pending
C11_Witness ==
    /\ snap.busy
    /\ \E p \in DOMAIN snap.Endpoints :
          snap.Endpoints[p].RequestCount >= 2 /\ snap.Endpoints[p].ErrorCount >= 2
    /\ \E r \in Reqs : rpc[r] = "eprec"

\* the requests of a path whose statistics have been recorded
RecordedOn(p) == Cardinality({r \in Reqs : rpath[r] = p /\ rpc[r] \in {"log", "done"}})

HistogramAt(es, code) == IF code \in DOMAIN es.StatusCodes THEN es.StatusCodes[code] ELSE 0

\* C12: no update of the statistics is lost: the request_count of a path is
\* the number of requests recorded on it, and for the error endpoint (status
\* 500) error_count and the histogram entry of 500 are that number too, so
\* after M completed requests all three are M.
C12_NoStatisticsUpdateLost ==
    /\ \A p \in StatPaths :
          RecordedOn(p) = (IF p \in DOMAIN epStats THEN epStats[p].RequestCount ELSE 0)
    /\ ErrorPath \in DOMAIN epStats =>
          /\ epStats[ErrorPath].ErrorCount = RecordedOn(ErrorPath)
          /\ HistogramAt(epStats[ErrorPath], 500) = RecordedOn(ErrorPath)

\* all requests went to the error endpoint, overlapping, and are counted
C12_Witness ==
    /\ InFlight = {}
    /\ RecordedOn(ErrorPath) = MaxStatReq
    /\ epStats[ErrorPath].RequestCount = MaxStatReq
    /\ HistogramAt(epStats[ErrorPath], 500) = MaxStatReq
    /\ \E i \in 1..(Len(appended) - 1) : appended[i].Timestamp > appended[i + 1].Timestamp

-----------------------------------------------------------------------------
(* Claims about the life cycle, checked under SpecLife *)

\* C18: a call of Start on a server that is running returns the error and
\* changes nothing: no listener and no watcher task is added, the watcher and
\* the subscribers are as before, and the server is still running.
C18_StartTwiceIsAnError ==
    [][(lcount' = lcount + 1 /\ lop' = "start" /\ isRunning) =>
          /\ lres' = "server is already running"
          /\ UNCHANGED <<isRunning, httpServer, listeners, w_isRunning, stopChan,
                         watchTasks, wsVars>>]_vars

\* Start was refused on a running server that has a subscriber
C18_Witness ==
    /\ lop = "start"
    /\ lran
    /\ lres = "server is already running"
    /\ isRunning /\ listeners = 1 /\ watchTasks = 1
    /\ wsConnections # {}

\* C19: when Stop returns on a server that was running, with an error or
\* without, the watcher is stopped, the subscriber set is empty and
\* IsRunning() is false.
C19_StopLeavesNothingRunning ==
    [][(lcount' = lcount + 1 /\ lop' = "stop" /\ lran') =>
          /\ ~w_isRunning'
          /\ wsConnections' = {}
          /\ ~isRunning']_vars

-----------------------------------------------------------------------------
(* Claims about the subscribers, checked under SpecBroadcast, SpecWs and     *)
(* SpecWsFair                                                              *)

\* C15: publishers are never blocked by subscribers: every message that is
\* to be broadcast leads to the return of its broadcastToWebSockets (unless
\* the process has stopped), even when a subscriber accepts no data.
C15_PublishersNeverBlocked ==
    \A b \in Bcasters : (bc[b].pc = "spawned") ~> (bc[b].pc = "done" \/ wsFault)

\* C16: when a broadcast has returned, no subscriber to which its write
\* failed is in the set, and a subscriber to which its write succeeded is in
\* the set unless somebody else removed it; a subscriber that was removed
\* receives nothing any more.
C16_BroadcastDropsExactlyTheFailed ==
    /\ [](\A b \in Bcasters : bc[b].pc = "done" =>
            /\ bc[b].failed \cap wsConnections = {}
            /\ \A c \in bc[b].sent : c \in wsConnections \/ dropped[c] \notin {0, b})
    /\ [][\A c \in Conns : dropped[c] # 0 => recv'[c] = recv[c]]_vars

\* a broadcast returned that failed for one subscriber and reached the other
C16_Witness ==
    \E b \in Bcasters :
        /\ bc[b].pc = "done"
        /\ bc[b].failed # {}
        /\ bc[b].sent # {}
        /\ bc[b].sent \subseteq wsConnections
        /\ \E c \in bc[b].failed : dropped[c] = b /\ wpc[c] = "reading"

\* C17: the first message a subscriber receives is config and the second is
\* stats, whatever is broadcast while the connection is set up.
C17_ConfigThenStatsFirst ==
    \A c \in Conns :
        /\ Len(recv[c]) >= 1 => recv[c][1].type = "config"
        /\ Len(recv[c]) >= 2 => recv[c][2].type = "stats"

-----------------------------------------------------------------------------
(* Claims about the config events, checked under SpecEvents and SpecEventsFair *)

IsConfigUpdated(msg) == msg.type = "config_updated"

ConfigEvents(c) == SelectSeq(recv[c], IsConfigUpdated)

\* C13: a subscriber receives the config_updated events in the order of the
\* mutations they belong to, and each carries the Config as that mutation
\* published it.
C13_EventsInMutationOrder ==
    \A c \in Conns :
        LET ev == ConfigEvents(c) IN
        \A i \in 1..Len(ev) :
            /\ ev[i].ver = ev[i].seq
            /\ i > 1 => ev[i - 1].seq < ev[i].seq

HasEvent(c, i) ==
    \E k \in 1..Len(recv[c]) : IsConfigUpdated(recv[c][k]) /\ recv[c][k].seq = i

\* C14: every replacement of the live Config, by a mutator or by the
\* watcher's reload, leads to a config_updated event for it at every
\* subscriber that was connected then and stays connected.
C14_EveryPublishReachesSubscribers ==
    \A i \in 1..MaxPub, c \in Conns :
        (Len(pubs) >= i /\ c \in pubs[i].audience) ~> (c \notin wsConnections \/ HasEvent(c, i))

-----------------------------------------------------------------------------
(* More claims about the store, checked under SpecStore *)

\* a file that exists and cannot be adopted: it is no JSON document, or its
\* port is out of range, or it has an endpoint with an empty path
FileUnusable(file) ==
    \/ file = Garbage
    \/ /\ file.kind = "json"
       /\ \/ Unmarshal(file.doc).Server.Port \notin 1..65535
          \/ "" \in Keys(Unmarshal(file.doc).Endpoints)

LoadedUnusableFile(t) ==
    Returning(t) /\ call[t].op = "load" /\ FileUnusable(pre[t].disk)

\* C21: when LoadConfig finds a file that cannot be parsed or that fails
\* validation, it returns an error, and the in-memory Config (adopted
\* before, or none) and the file are what they were before the call.
C21_BadFileKeepsPreviousConfig ==
    \A t \in Threads :
        LoadedUnusableFile(t) =>
            /\ res[t] \in {"parseerror", "invalid", "ioerror"}
            /\ LiveValue = pre[t].live
            /\ disk = pre[t].disk

\* a server with a Config adopted has refused a file that parses and fails
\* validation
C21_Witness ==
    \E t \in Threads :
        /\ LoadedUnusableFile(t)
        /\ pre[t].live.loaded
        /\ res[t] = "invalid"

\* the endpoint types handleDynamicEndpoint has a branch for
DispatchedTypes == {"error", "delay", "conditional_error"}

\* C22: no endpoint of the published Config has a type other than error,
\* delay and conditional_error, so that the dispatch never takes its
\* "Unknown endpoint type" branch.
C22_OnlyDispatchedTypesPublished ==
    (NoCallRunning /\ m_config # 0) =>
        \A p \in Keys(heap[m_config].Endpoints) :
            heap[m_config].Endpoints.m[p].Type \in DispatchedTypes

\* C24: RemoveEndpoint of a path that the loaded Config does not have returns
\* no error (unless the save fails) and leaves the in-memory Config
\* unchanged, whether the endpoint table is a map or nil.
C24_DeleteOfAbsentPathSucceeds ==
    \A t \in Threads :
        ( /\ Returning(t)
          /\ call[t].op = "delete"
          /\ pre[t].live.loaded
          /\ call[t].path \notin Keys(pre[t].live.cfg.Endpoints)
          /\ res[t] # "ioerror" ) =>
            /\ res[t] = "ok"
            /\ LiveValue = pre[t].live

-----------------------------------------------------------------------------
(* SpecUndo: one caller loads or replaces the Config, then adds an endpoint *)
(* and removes the endpoint of the same path                                *)

UndoFiles ==
    {NoFile} \cup {JsonFile(MarshalIndent(config)) : config \in ValidConfigs}
UndoPaths == {"/api/error", "/api/new"}

InitUndo == (\E file \in UndoFiles : InitStoreWith(file)) /\ InitReqIdle

NextUndo ==
    \/ \E t \in {1} : NoCallRunning /\ applied = <<>> /\ BeginLoad(t)
    \/ \E t \in {1}, cfg \in ValidConfigs :
          NoCallRunning /\ applied = <<>> /\ BeginReplace(t, cfg)
    \/ \E t \in {1}, path \in UndoPaths, ep \in ValidEndpoints :
          NoCallRunning /\ Len(applied) = 1 /\ BeginUpsert(t, path, ep)
    \/ \E t \in {1} : NoCallRunning /\ Len(applied) = 2 /\ BeginDelete(t, applied[2].path)
    \/ \E t \in Threads : Lock(t)
    \/ \E t \in Threads : Step(t, IoOutcomes)
    \/ \E t \in Threads : Return(t, FALSE, TRUE)

SpecUndo == InitUndo /\ [][NextUndo]_vars

\* the endpoint table of the Config the first call adopted
OriginalTable ==
    IF applied[1].op = "replace" THEN applied[1].cfg.Endpoints
    ELSE IF start0.disk = NoFile THEN createDefaultConfig.Endpoints
    ELSE Unmarshal(start0.disk.doc).Endpoints

\* the delete that follows a successful load or replace and a successful
\* upsert of the same path has succeeded
UpsertThenDeleteDone(t) ==
    /\ Returning(t) /\ call[t].op = "delete" /\ res[t] = "ok"
    /\ Len(applied) = 2
    /\ applied[1].res = "ok"
    /\ applied[2].op = "upsert" /\ applied[2].res = "ok"
    /\ applied[2].path = call[t].path

\* C23: after UpdateEndpoint(p, e) and RemoveEndpoint(p) on a loaded Config,
\* the endpoint table is the one the Config had before exactly when p was
\* not in that table.
C23_UpsertThenDeleteRestoresIffAbsent ==
    \A t \in Threads :
        UpsertThenDeleteDone(t) =>
            (LiveValue.cfg.Endpoints = OriginalTable
                <=> call[t].path \notin Keys(OriginalTable))

-----------------------------------------------------------------------------
(* More claims about the statistics, checked under SpecStats *)

RequestSum(eps) == SumOver([p \in DOMAIN eps |-> eps[p].RequestCount], DOMAIN eps)
ErrorSum(eps) == SumOver([p \in DOMAIN eps |-> eps[p].ErrorCount], DOMAIN eps)

\* C27: in every snapshot GetAllStats builds, the request counts of the
\* endpoints add up to at most the global request count, and the error
\* counts to at most the global error count; when no request is in flight
\* the global totals are those sums, in the statistics and in a snapshot of them.
C27_EndpointSumsWithinTotals ==
    /\ snap.busy =>
          /\ RequestSum(snap.Endpoints) <= snap.RequestCount
          /\ ErrorSum(snap.Endpoints) <= snap.ErrorCount
    /\ InFlight = {} =>
          /\ ssStats.RequestCount = RequestSum(epStats)
          /\ ssStats.ErrorCount = ErrorSum(epStats)
          /\ (snap.busy /\ \A p \in DOMAIN epStats :
                    p \in DOMAIN snap.Endpoints /\ snap.Endpoints[p] = GetStats(epStats[p])) =>
                /\ snap.RequestCount = RequestSum(snap.Endpoints)
                /\ snap.ErrorCount = ErrorSum(snap.Endpoints)

\* a finished snapshot, taken between the two halves of a record, whose
\* endpoint counts add up to less than its total, errors among them
C27_Witness ==
    /\ snap.busy /\ snap.todo = {}
    /\ snap.ErrorCount >= 1
    /\ DOMAIN snap.Endpoints = StatPaths
    /\ RequestSum(snap.Endpoints) < snap.RequestCount
    /\ RequestSum(snap.Endpoints) >= 1

-----------------------------------------------------------------------------
(* More claims about the request history, checked under SpecReq *)

\* C30: in every snapshot of the request history the records are in the
\* order of their timestamps, the time each request started, latest first,
\* also when requests overlap and take different times.
C30_HistoryOrderedByStartTime ==
    \A i \in 1..(Len(GetRequestLog) - 1) :
        GetRequestLog[i].Timestamp >= GetRequestLog[i + 1].Timestamp

-----------------------------------------------------------------------------
(* SpecTraffic: requests to endpoints, static files and the control plane,  *)
(* each of which records its statistics, appends its record to the history *)
(* and broadcasts it to the subscribers before it completes                *)

ControlPaths == {"/config", "/stats", "/requestlog", "/ws"}

\* the handlers of the control plane that call s.stats.RecordRequest
RecordingControlPaths == {"/config", "/stats"}

\* a request to the control plane and the status its handler writes: /config
\* answers 200, 400 (invalid body, empty path, refused change) or 405;
\* /requestlog 200 or 405; /ws 400 to a request that is no upgrade
ControlInputs ==
    {<<"/config", 200>>, <<"/config", 400>>, <<"/config", 405>>, <<"/stats", 200>>,
     <<"/requestlog", 200>>, <<"/requestlog", 405>>, <<"/ws", 400>>}

\* A request to the control plane arrives: the middleware takes startTime and
\* the handler writes `status`.  handleConfig and handleStats defer a
\* RecordRequest with http.StatusOK under their literal path;
\* handleRequestLog and handleWebSocket record nothing.
ReqControl(r, path, status, limit) ==
    /\ rpc[r] = "idle"
    /\ \A q \in Reqs : q < r => rpc[q] # "idle"
    /\ Cardinality(InFlight) < limit
    /\ now' = now + 1
    /\ rstart' = [rstart EXCEPT ![r] = now]
    /\ rpath' = [rpath EXCEPT ![r] = path]
    /\ rstatus' = [rstatus EXCEPT ![r] = status]
    /\ IF path \in RecordingControlPaths
       THEN /\ rcode' = [rcode EXCEPT ![r] = 200]
            /\ rpc' = [rpc EXCEPT ![r] = "record"]
       ELSE /\ rpc' = [rpc EXCEPT ![r] = "log"]
            /\ UNCHANGED rcode
    /\ UNCHANGED <<ConditionalCount, requestLog, rep, rcount, rinc, appended, ssStats,
                   epStats, snap, extVars>>
    /\ UNCHANGED cfgVars

\* a middleware that wraps the catch-all handler only
LogAndBroadcast_SkipControl(r) ==
    /\ rpc[r] = "log"
    /\ r \in Bcasters
    /\ bc[r].pc = "idle"
    /\ IF rpath[r] \in ControlPaths
       THEN /\ rpc' = [rpc EXCEPT ![r] = "done"]
            /\ UNCHANGED <<requestLog, appended, bc>>
       ELSE /\ requestLog' = addToRequestLog(requestLog, Entry(r))
            /\ appended' = Append(appended, Entry(r))
            /\ Spawn(r, "request_log", rstart[r], 0)
            /\ rpc' = [rpc EXCEPT ![r] = "bcast"]
    /\ UNCHANGED <<ConditionalCount, now, rpath, rep, rstart, rcount, rinc, rstatus,
                   statVars, wsVars, lifeVars, liveObj, objVer, cfgSeq, pubs, auxVars>>
    /\ UNCHANGED cfgVars

\* back in the middleware: s.addToRequestLog(entry), and the goroutine of the
\* request is about to call s.broadcastToWebSockets with the record
LogAndBroadcast(r) ==
    /\ rpc[r] = "log"
    /\ r \in Bcasters
    /\ bc[r].pc = "idle"
    /\ requestLog' = addToRequestLog(requestLog, Entry(r))
    /\ appended' = Append(appended, Entry(r))
    /\ Spawn(r, "request_log", rstart[r], 0)
    /\ rpc' = [rpc EXCEPT ![r] = "bcast"]
    /\ UNCHANGED <<ConditionalCount, now, rpath, rep, rstart, rcount, rinc, rstatus,
                   statVars, wsVars, lifeVars, liveObj, objVer, cfgSeq, pubs, auxVars>>
    /\ UNCHANGED cfgVars

\* broadcastToWebSockets has returned: the middleware returns
ReqFinish(r) ==
    /\ rpc[r] = "bcast"
    /\ bc[r].pc = "done"
    /\ rpc' = [rpc EXCEPT ![r] = "done"]
    /\ UNCHANGED <<ConditionalCount, requestLog, now, rpath, rep, rstart, rcount, rinc,
                   rstatus, appended, statVars, extVars>>
    /\ UNCHANGED cfgVars

NextTraffic ==
    \/ \E r \in Bcasters, path \in StatPaths : ReqStart(r, path, 404, NThreads)
    \/ \E r \in Bcasters, in \in ControlInputs : ReqControl(r, in[1], in[2], NThreads)
    \/ \E r \in Reqs : RecordRequest(r)
    \/ \E r \in Reqs : LogAndBroadcast(r)
    \/ \E r \in Reqs : ReqFinish(r)
    \/ Broadcasts
    \/ \E c \in Conns : Connect(c)
    \/ \E c \in Conns : Peer_Dies(c)

SpecTraffic == InitWs /\ [][NextTraffic]_vars

-----------------------------------------------------------------------------
(* Claims about the records of the requests, checked under SpecTraffic *)

CompletedReqs == {r \in Reqs : rpc[r] = "done"}
CompletedOn(p) == {r \in CompletedReqs : rpath[r] = p}
TrafficPaths == StatPaths \cup ControlPaths

\* how many elements of a sequence satisfy a test
Occurrences(seq, Test(_)) == Cardinality({i \in 1..Len(seq) : Test(seq[i])})

\* C29: every completed request has appended exactly one record to the
\* history and has made exactly one request_log broadcast, which wrote the
\* record once to every subscriber it reached; the record of the request
\* that appended last is at the head of the history.
C29_OneRecordAndOneBroadcastPerRequest ==
    /\ \A r \in CompletedReqs :
          /\ LET Mine(e) == e = Entry(r) IN Occurrences(appended, Mine) = 1
          /\ bc[r].pc = "done" /\ bc[r].type = "request_log" /\ bc[r].seq = rstart[r]
          /\ \A c \in Conns :
                LET Mine(m) == m.type = "request_log" /\ m.seq = rstart[r]
                IN  Occurrences(recv[c], Mine) = (IF c \in bc[r].sent THEN 1 ELSE 0)
    /\ Len(appended) = Cardinality({r \in Reqs : rpc[r] \in {"bcast", "done"}})
    /\ Cardinality({b \in Bcasters : bc[b].pc # "idle"}) = Len(appended)
    /\ appended # <<>> => GetRequestLog[1] = appended[Len(appended)]

\* requests to the control plane and to a static file that is not there have
\* completed, and a subscriber has the records of both
C29_Witness ==
    /\ CompletedReqs = Bcasters
    /\ \E r \in CompletedReqs : rpath[r] \in ControlPaths /\ rstatus[r] = 405
    /\ \E r \in CompletedReqs : rpath[r] = "/index.html" /\ rstatus[r] = 404
    /\ \E c \in Conns : \A r \in CompletedReqs : c \in bc[r].sent

StartedOn(p) == {r \in Reqs : rpc[r] # "idle" /\ rpath[r] = p}
CountedOn(p) == IF p \in DOMAIN epStats THEN epStats[p].RequestCount ELSE 0

\* C26: every completed request is counted once in the global total and once
\* in the statistics of its path, the control-plane paths /config, /stats,
\* /requestlog and /ws under their literal path like any other: the counts
\* are never below the requests completed nor above the requests begun.
C26_EveryRequestCountedOnce ==
    /\ Cardinality(CompletedReqs) <= ssStats.RequestCount
    /\ ssStats.RequestCount <= Cardinality({r \in Reqs : rpc[r] # "idle"})
    /\ \A p \in TrafficPaths :
          /\ Cardinality(CompletedOn(p)) <= CountedOn(p)
          /\ CountedOn(p) <= Cardinality(StartedOn(p))

\* the requests whose handler has called s.stats.RecordRequest
StatisticsRecorded ==
    {r \in Reqs : /\ rpc[r] \in {"log", "bcast", "done"}
                  /\ rpath[r] \in StatPaths \cup RecordingControlPaths}

\* C28: the status a request records in the statistics (the histogram and
\* the error count) is the status written to the client, the one its record
\* in the history shows, also for /config answered 400 or 405 and for a
\* static file answered 404.
C28_RecordedStatusIsFinalStatus ==
    \A r \in StatisticsRecorded :
        /\ rcode[r] = rstatus[r]
        /\ rcode[r] = Entry(r).StatusCode

-----------------------------------------------------------------------------
(* SpecReconf: requests are served, one at a time, while the endpoint of   *)
(* /api/flaky is changed, removed and added again through the Manager, and *)
(* while the file is edited and reloaded by the watcher                    *)

\* what the endpoint of the path is changed to: another error_every_n,
\* another kind
ReconfEndpoints == {CondEndpoint(1, 503, "nil"), ErrorEndpoint(500, "m")}

\* the Config an editor writes to the file: another error_every_n
EditedConfigs == {[ServingConfig(1) EXCEPT !.Server.Port = 1]}

\* the file at configPath is rewritten from outside; the Watcher will call
\* reloadConfig
EditFile(config) ==
    /\ NoCallRunning
    /\ disk # JsonFile(MarshalIndent(config))
    /\ disk' = JsonFile(MarshalIndent(config))
    /\ UNCHANGED <<heap, m_config, mutex, pc, call, io, data, res, spawned, pre, held,
                   applied, start0, anyFailed>>
    /\ UNCHANGED reqVars

InitReconf == InitServing(2) /\ InitReqIdle

NextReconf ==
    \/ \E config \in EditedConfigs : EditFile(config)
    \/ \E t \in {1} : NoCallRunning /\ BeginLoad(t)
    \/ \E t \in {1}, ep \in ReconfEndpoints :
          NoCallRunning /\ BeginUpsert(t, FlakyPath, ep)
    \/ \E t \in {1} : NoCallRunning /\ BeginDelete(t, FlakyPath)
    \/ \E t \in Threads : Lock(t)
    \/ \E t \in Threads : LoadConfig_Run(t, "ok")
    \/ \E t \in Threads : UpdateEndpoint_Run(t)
    \/ \E t \in Threads : RemoveEndpoint_Run(t)
    \/ \E t \in Threads : Save_Marshal(t)
    \/ \E t \in Threads : Save_Write(t, "ok")
    \/ \E t \in Threads : Publish(t)
    \/ \E t \in Threads : Return(t, FALSE, FALSE)
    \/ \E r \in Reqs, path \in DynamicPaths :
          r <= MaxStatReq /\ ReqStart(r, path, 200, 1)
    \/ \E r \in Reqs : IncrementConditionalCount(r)
    \/ \E r \in Reqs : GetConditionalCount(r)
    \/ \E r \in Reqs : RecordAndLog(r)

SpecReconf == InitReconf /\ [][NextReconf]_vars

\* the requests to a path that were dispatched to a conditional_error
\* endpoint and have incremented the count
Incremented(p) ==
    {r \in Reqs : /\ rpath[r] = p
                  /\ rep[r].Type = "conditional_error"
                  /\ rpc[r] \notin {"idle", "inc"}}

\* C25: the conditional count of a path is the number of requests to it
\* that were dispatched to a conditional_error endpoint and have
\* incremented it: it never goes down, no change of the configuration
\* (error_every_n, the kind, removal and re-creation, reload) resets it, and
\* no other request changes it.
C25_CountSurvivesReconfiguration ==
    /\ \A p \in DynamicPaths :
          (IF p \in DOMAIN ConditionalCount THEN ConditionalCount[p] ELSE 0)
              = Cardinality(Incremented(p))
    /\ \A r \in Reqs : rpc[r] \notin {"idle", "inc"} /\ rep[r].Type = "conditional_error"
          => rinc[r] \in 1..ConditionalCount[rpath[r]]

\* a request was counted under error_every_n = 2, the endpoint was then
\* changed to an error endpoint, which served a request, and to
\* error_every_n = 1, under which a request was counted as the second; the
\* Config now live came from an edited file and has the path no more
C25_Witness ==
    /\ FlakyPath \in DOMAIN ConditionalCount
    /\ ConditionalCount[FlakyPath] = 2
    /\ \E r \in Incremented(FlakyPath) : rep[r].ErrorEveryN = 2 /\ rinc[r] = 1
    /\ \E r \in Incremented(FlakyPath) : rep[r].ErrorEveryN = 1 /\ rinc[r] = 2
    /\ \E r \in Reqs : /\ rpath[r] = FlakyPath /\ rep[r].Type = "error"
                         /\ rstart[r] = 1 /\ rpc[r] = "done"
    /\ NoCallRunning
    /\ FlakyPath \notin Keys(heap[m_config].Endpoints)

-----------------------------------------------------------------------------
(* SpecTimes: EndpointStats.RecordRequest is called with every sequence of *)
(* elapsed times                                                           *)

\* EndpointStats.RecordRequest, the time fields: durationMs is
\* duration.Milliseconds()
RecordTimes(es, durationMs) ==
    [RequestCount |-> es.RequestCount + 1,
     TotalTimeMs |-> es.TotalTimeMs + durationMs,
     MinTimeMs |-> IF es.MinTimeMs = 0 \/ durationMs < es.MinTimeMs
                   THEN durationMs ELSE es.MinTimeMs,
     MaxTimeMs |-> IF durationMs > es.MaxTimeMs THEN durationMs ELSE es.MaxTimeMs]

RecordDuration(durationMs) ==
    /\ Len(durations) < MaxRecords
    /\ esTimes' = RecordTimes(esTimes, durationMs)
    /\ durations' = Append(durations, durationMs)
    /\ UNCHANGED <<ConditionalCount, requestLog, now, rpc, rpath, rep, rstart, rcount,
                   rinc, rstatus, appended, statVars, wsVars, lifeVars, pubVars, watchVars, lockVars,
                   tuiVars>>
    /\ UNCHANGED cfgVars

InitTimes == InitServing(3) /\ InitReqIdle

NextTimes == \E durationMs \in 0..MaxMs : RecordDuration(durationMs)

SpecTimes == InitTimes /\ [][NextTimes]_vars

Recorded == {durations[i] : i \in 1..Len(durations)}
Smallest(S) == CHOOSE x \in S : \A y \in S : x <= y
Largest(S) == CHOOSE x \in S : \A y \in S : x >= y

\* C31: once something was recorded on an endpoint, its min elapsed ms is the
\* smallest and its max elapsed ms the largest of the elapsed values
\* recorded, times of 0 ms included; so min <= max.
C31_MinAndMaxOfRecorded ==
    durations # <<>> =>
        /\ esTimes.MinTimeMs = Smallest(Recorded)
        /\ esTimes.MaxTimeMs = Largest(Recorded)
        /\ esTimes.MinTimeMs <= esTimes.MaxTimeMs

-----------------------------------------------------------------------------
(* Hot reload: Watcher.watch and reloadConfig, with an editor that rewrites  *)
(* the file from outside. Time is counted in ticks of 100 ms.               *)

debounceInterval == 5      \* 500 * time.Millisecond
reloadSleep == 1           \* time.Sleep(100 * time.Millisecond)

\* time.Since(t); the zero time is further back than any interval
Since(t) == IF t.isZero THEN debounceInterval + now ELSE now - t.at

reqRest == <<ConditionalCount, requestLog, rpc, rpath, rep, rstart, rcount, rinc,
             rstatus, appended, statVars, wsVars, lifeVars, pubVars, timeVars, lockVars,
             tuiVars>>

\* the contents the editor may leave in the file: two valid configurations
\* and bytes that do not parse
WatchedFiles == {JsonFile(MarshalIndent(ServingConfig(n))) : n \in 1..2} \cup {Garbage}
FileOps == {"write", "create"}

\* time passes
Tick ==
    /\ now < MaxClock
    /\ now' = now + 1
    /\ UNCHANGED <<reqRest, watchVars>>
    /\ UNCHANGED cfgVars

\* the editor rewrites the file; fsnotify queues one event for it
Editor_Write(file, op) ==
    /\ editing
    /\ Len(edits) < MaxEdits
    /\ disk' = file
    /\ events' = Append(events, op)
    /\ edits' = Append(edits, file)
    /\ UNCHANGED <<wtpc, lastReload, wakeAt, editing, lastOk, wlog, now, reqRest>>
    /\ UNCHANGED <<heap, m_config, mutex, pc, call, io, data, res, spawned, pre, held,
                   applied, start0, anyFailed>>

\* the editor leaves the file as it is, for good
Editor_Leaves ==
    /\ editing
    /\ editing' = FALSE
    /\ UNCHANGED <<events, wtpc, lastReload, wakeAt, edits, lastOk, wlog, now, reqRest>>
    /\ UNCHANGED cfgVars

\* `if time.Since(lastReload) < debounceInterval { continue }`
Debounced == Since(lastReload) < debounceInterval

\* Watcher.watch: an event of the config file is received; it is skipped in
\* the debounce window, otherwise reloadConfig starts with its Sleep
Watch_Receive ==
    /\ wtpc = "select"
    /\ events # <<>>
    /\ events' = Tail(events)
    /\ wlog' = Append(wlog, [at |-> now, op |-> Head(events), dropped |-> Debounced,
                             lastOk |-> lastOk])
    /\ IF Debounced
       THEN UNCHANGED <<wtpc, wakeAt>>
       ELSE wtpc' = "sleep" /\ wakeAt' = now + reloadSleep
    /\ UNCHANGED <<lastReload, editing, edits, lastOk, now, reqRest>>
    /\ UNCHANGED cfgVars

\* reloadConfig: the Sleep is over
Watch_Wake ==
    /\ wtpc = "sleep"
    /\ now >= wakeAt
    /\ wtpc' = "load"
    /\ UNCHANGED <<events, lastReload, wakeAt, editing, edits, lastOk, wlog, now, reqRest>>
    /\ UNCHANGED cfgVars

\* the reloads Watcher.watch has started
Reloads == {i \in 1..Len(wlog) : ~wlog[i].dropped}

\* reloadConfig: w.manager.LoadConfig() is called ...
Watch_Load(t) ==
    /\ wtpc = "load"
    /\ Len(applied) < Cardinality(Reloads)
    /\ BeginLoad(t)

\* ... and has returned: `lastReload = time.Now()`
Watch_Reloaded(t) ==
    /\ wtpc = "load"
    /\ pc[t] = "idle"
    /\ Len(applied) = Cardinality(Reloads)
    /\ wtpc' = "select"
    /\ lastReload' = At(now)
    /\ lastOk' = IF applied[Len(applied)].res = "ok" THEN At(now) ELSE lastOk
    /\ UNCHANGED <<events, wakeAt, editing, edits, wlog, now, reqRest>>
    /\ UNCHANGED cfgVars

InitWatch == InitServing(1) /\ InitReqIdle

NextWatch ==
    \/ Tick
    \/ \E file \in WatchedFiles, op \in FileOps : Editor_Write(file, op)
    \/ Editor_Leaves
    \/ Watch_Receive
    \/ Watch_Wake
    \/ \E t \in {1} :
        \/ Watch_Load(t)
        \/ Lock(t)
        \/ LoadConfig_Run(t, "ok")
        \/ Return(t, FALSE, TRUE)
        \/ Watch_Reloaded(t)

SpecWatch == InitWatch /\ [][NextWatch]_vars

\* C32: a write or create event of the config file is dropped by the watcher
\* exactly when the last reload that succeeded happened less than 500 ms
\* before it; every other such event starts a reload attempt, and a reload
\* attempt that failed starts no debounce window.
C32_DroppedIffSuccessWithinWindow ==
    \A i \in 1..Len(wlog) :
        wlog[i].dropped <=>
            /\ ~wlog[i].lastOk.isZero
            /\ wlog[i].at - wlog[i].lastOk.at < debounceInterval

\* the editor wrote valid contents only, has left, and the watcher has
\* nothing more to do
Settled ==
    /\ ~editing
    /\ edits # <<>>
    /\ \A i \in 1..Len(edits) : edits[i] # Garbage
    /\ events = <<>>
    /\ wtpc = "select"

\* C33: when the file was rewritten with valid content any number of times
\* and then left alone, the Config in memory ends up equal to the final
\* content of the file, also when the last write comes in the debounce
\* window of an earlier reload or while an earlier reload sleeps.
C33_FinalContentLoaded ==
    Settled => JsonFile(MarshalIndent(LiveValue.cfg)) = disk

-----------------------------------------------------------------------------
(* The file while a mutator saves, checked under SpecStore *)

\* the call of t has been through os.WriteFile
Written(t) ==
    /\ call[t].op \in Mutators
    /\ data[t] # NoData
    /\ pc[t] \in {"publish", "ret"}

\* C34: a save replaces the file atomically: during and after the write of a
\* mutator, also when the write stops half way, the file holds the complete
\* previous content or the complete new content, never an empty or partial
\* document.
C34_FileIsPreviousOrNew ==
    \A t \in Threads :
        Written(t) => disk \in {pre[t].disk, JsonFile(data[t])}

-----------------------------------------------------------------------------
(* The lock of the subscriber set, checked under SpecWs *)

\* C35: the subscriber set is guarded by one lock, so that every change of it
\* (add, remove, removal of a failed subscriber during a broadcast, clearing
\* on stop) excludes every other change and every iteration over it: no
\* step changes the set while a goroutine other than the one taking the step
\* ranges over it.
C35_SetChangesExcludeIteration ==
    [][wsConnections' # wsConnections => \A b \in Readers : bc'[b] # bc[b]]_vars

-----------------------------------------------------------------------------
(* Restarting the watcher, checked under SpecLife *)

\* C36: any sequence of start() and stop() is safe: after start, stop, start
\* the watcher task runs again, and a second stop completes; the stop channel
\* is never closed twice and a watcher task that was just started never
\* finds it closed.
C36_RestartedWatcherRuns ==
    /\ lpc # "panic"
    /\ w_isRunning => (stopChan = "open" /\ watchTasks > 0)

-----------------------------------------------------------------------------
(* The locks. Each task runs the lock operations of its code path in order. *)
(* A sync.RWMutex gives a waiting writer precedence: from the moment Lock   *)
(* is called no new reader gets in, and Lock returns when the readers that  *)
(* were in have left.                                                       *)

Op(name, l) == <<name, l>>
Pair(l) == <<Op("Lock", l), Op("Unlock", l)>>
RPair(l) == <<Op("RLock", l), Op("RUnlock", l)>>

\* Manager.GetConfig
GetConfig_Locks == RPair("m.mutex")
\* ServerStats.GetEndpointStats
GetEndpointStats_Locks == Pair("ss.mutex")
\* ServerStats.RecordRequest: the global lock is released before
\* GetEndpointStats and EndpointStats.RecordRequest take theirs
RecordRequest_Locks == Pair("ss.mutex") \o GetEndpointStats_Locks \o Pair("es.mutex")

\* a snapshot that fetches each endpoint through GetEndpointStats while it
\* holds the read lock of the global statistics
GetAllStats_ViaGetEndpointStats ==
    <<Op("RLock", "ss.mutex")>> \o GetEndpointStats_Locks \o RPair("es.mutex")
        \o <<Op("RUnlock", "ss.mutex")>>

\* ServerStats.GetAllStats: EndpointStats.GetStats inside the global read lock
GetAllStats_Locks ==
    <<Op("RLock", "ss.mutex")>> \o RPair("es.mutex") \o <<Op("RUnlock", "ss.mutex")>>

\* Server.broadcastToWebSockets: WriteJSON inside the read lock
broadcastToWebSockets_Locks ==
    <<Op("RLock", "wsConnectionsMu"), Op("Work", "WriteJSON"),
      Op("RUnlock", "wsConnectionsMu")>>

\* a request to a conditional_error endpoint: handleRequest,
\* handleDynamicEndpoint, then the rest of logRequestMiddleware
Request_Locks ==
    GetConfig_Locks \o GetEndpointStats_Locks
        \o Pair("es.mutex") \o RPair("es.mutex")     \* Increment/GetConditionalCount
        \o RecordRequest_Locks
        \o Pair("requestLogMu")                      \* addToRequestLog
        \o broadcastToWebSockets_Locks

\* a mutator of the Manager, then notifyWatchers -> Server.onConfigChange
Mutation_Locks == Pair("m.mutex") \o GetConfig_Locks \o broadcastToWebSockets_Locks

\* Watcher.reloadConfig -> Manager.LoadConfig
Reload_Locks == Pair("m.mutex")

\* Server.Stop: Watcher.Stop, the clearing of the subscribers, Shutdown
Stop_Locks ==
    <<Op("Lock", "s.mu")>> \o Pair("w.mutex") \o Pair("wsConnectionsMu")
        \o <<Op("Work", "Shutdown"), Op("Unlock", "s.mu")>>

Program(t) ==
    CASE LockTasks[t] = "request" -> Request_Locks
      [] LockTasks[t] = "snapshot" -> GetAllStats_Locks
      [] LockTasks[t] = "mutation" -> Mutation_Locks
      [] LockTasks[t] = "reload" -> Reload_Locks
      [] LockTasks[t] = "stop" -> Stop_Locks

Running(t) == tpc[t].i <= Len(Program(t))
NextOp(t) == Program(t)[tpc[t].i]
Advance(t) == tpc' = [tpc EXCEPT ![t] = [i |-> tpc[t].i + 1, asked |-> FALSE]]
LockRest == <<ConditionalCount, requestLog, now, rpc, rpath, rep, rstart, rcount, rinc,
              rstatus, appended, statVars, wsVars, lifeVars, pubVars, timeVars, watchVars,
              tuiVars>>

\* Lock is called: the writer is next in line and new readers are kept out
RWMutex_Lock_Ask(t) ==
    /\ Running(t) /\ NextOp(t)[1] = "Lock" /\ ~tpc[t].asked
    /\ lk[NextOp(t)[2]].w = 0
    /\ lk' = [lk EXCEPT ![NextOp(t)[2]].w = t]
    /\ tpc' = [tpc EXCEPT ![t].asked = TRUE]
    /\ UNCHANGED LockRest /\ UNCHANGED cfgVars

\* Lock returns: the readers have left
RWMutex_Lock(t) ==
    /\ Running(t) /\ NextOp(t)[1] = "Lock" /\ tpc[t].asked
    /\ lk[NextOp(t)[2]].r = {}
    /\ Advance(t)
    /\ UNCHANGED lk
    /\ UNCHANGED LockRest /\ UNCHANGED cfgVars

RWMutex_Unlock(t) ==
    /\ Running(t) /\ NextOp(t)[1] = "Unlock"
    /\ lk' = [lk EXCEPT ![NextOp(t)[2]].w = 0]
    /\ Advance(t)
    /\ UNCHANGED LockRest /\ UNCHANGED cfgVars

\* RLock returns: no writer holds the lock or has asked for it
RWMutex_RLock(t) ==
    /\ Running(t) /\ NextOp(t)[1] = "RLock"
    /\ lk[NextOp(t)[2]].w = 0
    /\ lk' = [lk EXCEPT ![NextOp(t)[2]].r = @ \cup {t}]
    /\ Advance(t)
    /\ UNCHANGED LockRest /\ UNCHANGED cfgVars

RWMutex_RUnlock(t) ==
    /\ Running(t) /\ NextOp(t)[1] = "RUnlock"
    /\ lk' = [lk EXCEPT ![NextOp(t)[2]].r = @ \ {t}]
    /\ Advance(t)
    /\ UNCHANGED LockRest /\ UNCHANGED cfgVars

\* a step that takes no lock: the subscriber accepts the write, Shutdown
\* returns (in time or at its deadline)
Work(t) ==
    /\ Running(t) /\ NextOp(t)[1] = "Work"
    /\ Advance(t)
    /\ UNCHANGED lk
    /\ UNCHANGED LockRest /\ UNCHANGED cfgVars

TaskStep(t) ==
    \/ RWMutex_Lock_Ask(t)
    \/ RWMutex_Lock(t)
    \/ RWMutex_Unlock(t)
    \/ RWMutex_RLock(t)
    \/ RWMutex_RUnlock(t)
    \/ Work(t)

InitLocks == InitServing(3) /\ InitReqIdle

NextLocks == \E t \in TaskIds : TaskStep(t)

SpecLocks == InitLocks /\ [][NextLocks]_vars

\* the Go scheduler runs every goroutine that can take a step
SpecLocksFair == SpecLocks /\ \A t \in TaskIds : WF_vars(TaskStep(t))

\* t is inside Lock or RLock and cannot return from it now
Blocked(t) ==
    /\ Running(t)
    /\ \/ NextOp(t)[1] = "Lock" /\ ~tpc[t].asked /\ lk[NextOp(t)[2]].w # 0
       \/ NextOp(t)[1] = "Lock" /\ tpc[t].asked /\ lk[NextOp(t)[2]].r # {}
       \/ NextOp(t)[1] = "RLock" /\ lk[NextOp(t)[2]].w # 0

\* C37: the locks never deadlock: whatever the interleaving of requests,
\* statistics snapshots, mutations with their notification, reloads and
\* Stop, a task that waits for a lock gets it in the end, given that every
\* subscriber accepts the writes.
C37_WaitingTaskGetsLock ==
    \A t \in TaskIds : Blocked(t) ~> ~Blocked(t)

\* Stop has asked for the subscriber lock while a broadcast holds it for
\* reading, and another task waits behind Stop
C37_Witness ==
    /\ lk["wsConnectionsMu"].w # 0
    /\ lk["wsConnectionsMu"].r # {}
    /\ \E t \in TaskIds : Blocked(t) /\ NextOp(t) = Op("RLock", "wsConnectionsMu")

-----------------------------------------------------------------------------
(* The terminal client: tui.Model with Update and View. Bubble Tea calls    *)
(* View after every Update, so each action ends with the rendering of the   *)
(* active tab. A command of the client runs in its own goroutine and hands  *)
(* its message to Update when it is done.                                   *)

MinViewport == 5           \* `if m.viewportHeight < 5`
ReservedRows == 8          \* `msg.Height - 8`
NotConnectedLines == 3     \* the text the views return when !m.connected

WindowHeights == {10, 14, 15}
LineCounts == {1, 6, 9, MaxLines}
ScrollKeys == {"up", "down", "pgup", "pgdown", "home", "end"}
TabKeys == {"tab", "shift+tab"}

Clamp0(n) == IF n < 0 THEN 0 ELSE n

\* `maxScroll` of the scroll keys: from the height measured by the last
\* rendering of the tab
MaxScroll(mm) == Clamp0(mm.contentHeights[mm.activeTab] - mm.viewportHeight)

\* Update, case tea.WindowSizeMsg
Update_WindowSize(mm, height) ==
    [mm EXCEPT !.width = 80,
               !.viewportHeight = IF height - ReservedRows < MinViewport
                                  THEN MinViewport ELSE height - ReservedRows]

\* Update, case tea.KeyMsg in normal mode: the keys that scroll or switch tabs
Update_Key(mm, key) ==
    LET p == mm.scrollPositions[mm.activeTab]
        half == mm.viewportHeight \div 2
        to(q) == [mm EXCEPT !.scrollPositions[mm.activeTab] = q]
    IN  CASE key = "tab" -> [mm EXCEPT !.activeTab = (mm.activeTab + 1) % TabCount]
          [] key = "shift+tab" ->
                [mm EXCEPT !.activeTab = (mm.activeTab - 1 + TabCount) % TabCount]
          [] key = "up" -> IF p > 0 THEN to(p - 1) ELSE mm
          [] key = "down" -> IF p < MaxScroll(mm) THEN to(p + 1) ELSE mm
          [] key = "pgup" -> to(Clamp0(p - half))
          [] key = "pgdown" ->
                to(IF p + half > MaxScroll(mm) THEN MaxScroll(mm) ELSE p + half)
          [] key = "home" -> to(0)
          [] key = "end" -> to(MaxScroll(mm))

\* the lines the view of a tab returns
ViewLines(mm, lns, tab) == IF mm.connected THEN lns[tab] ELSE NotConnectedLines

\* renderScrollableContent: the height is measured; content that fits resets
\* the position; otherwise lines[start:end] is shown, which panics when
\* start > end
renderScrollableContent(mm, len, tab) ==
    LET measured == [mm EXCEPT !.contentHeights[tab] = len]
        start == mm.scrollPositions[tab]
        over == start + mm.viewportHeight
        end == IF over > len THEN len ELSE over
    IN  IF len <= mm.viewportHeight
        THEN [model |-> [measured EXCEPT !.scrollPositions[tab] = 0],
              shown |-> [done |-> TRUE, p |-> 0, len |-> len,
                         viewport |-> mm.viewportHeight, panic |-> FALSE]]
        ELSE [model |-> measured,
              shown |-> [done |-> TRUE, p |-> start, len |-> len,
                         viewport |-> mm.viewportHeight, panic |-> Clamp0(start) > end]]

\* Model.View: nothing is rendered before the first WindowSizeMsg
View(mm, lns) ==
    IF mm.width = 0
    THEN [model |-> mm, shown |-> rendered]
    ELSE renderScrollableContent(mm, ViewLines(mm, lns, mm.activeTab), mm.activeTab)

TuiRest == <<ConditionalCount, requestLog, now, rpc, rpath, rep, rstart, rcount, rinc,
             rstatus, appended, statVars, wsVars, lifeVars, pubVars, timeVars, watchVars,
             lockVars>>

\* one turn of the event loop: Update gave mm, then View
Turn(mm, lns) ==
    /\ ~rendered.panic
    /\ tui' = View(mm, lns).model
    /\ rendered' = View(mm, lns).shown
    /\ lines' = lns
    /\ UNCHANGED TuiRest /\ UNCHANGED cfgVars

WindowSizeMsg(height) ==
    /\ Turn(Update_WindowSize(tui, height), lines)
    /\ UNCHANGED <<reachable, cmds>>

KeyMsg(key) ==
    /\ Turn(Update_Key(tui, key), lines)
    /\ UNCHANGED <<reachable, cmds>>

\* the key `r`: the three fetches are started
KeyMsg_Refresh ==
    /\ Turn(tui, lines)
    /\ cmds' = cmds \cup {"fetch"}
    /\ UNCHANGED reachable

\* the filter text of the active tab changes (typing, enter, `c`, or the
\* FilterDebounceMsg): its view has n lines from now on
FilterChange(n) ==
    /\ lines[tui.activeTab] # n
    /\ Turn(tui, [lines EXCEPT ![tui.activeTab] = n])
    /\ UNCHANGED <<reachable, cmds>>

\* connectToServer is done: ConnectedMsg, or ErrorMsg when the GET failed
Connect_Done ==
    /\ "connect" \in cmds
    /\ IF reachable
       THEN /\ Turn([tui EXCEPT !.connected = TRUE, !.lastError = ""], lines)
            /\ cmds' = (cmds \ {"connect"}) \cup {"fetch"}
       ELSE /\ Turn([tui EXCEPT !.lastError = "Failed to connect"], lines)
            /\ cmds' = cmds \ {"connect"}
    /\ UNCHANGED reachable

\* the tick of one second: RefreshMsg; a connected client fetches again
RefreshMsg ==
    /\ "refresh" \in cmds
    /\ Turn(tui, lines)
    /\ cmds' = IF tui.connected THEN cmds \cup {"fetch"} ELSE cmds
    /\ UNCHANGED reachable

\* fetchConfig, fetchStats or fetchRequestLog is done: the data of a tab is
\* replaced, or ErrorMsg when the GET failed
Fetch_Done(tab, n) ==
    /\ "fetch" \in cmds
    /\ IF reachable
       THEN Turn(tui, [lines EXCEPT ![tab] = n])
       ELSE Turn([tui EXCEPT !.lastError = "Failed to fetch"], lines)
    /\ cmds' = cmds \ {"fetch"}
    /\ UNCHANGED reachable

\* the server goes away or comes back
Server_Down ==
    /\ ~rendered.panic
    /\ reachable
    /\ reachable' = FALSE
    /\ UNCHANGED <<tui, lines, rendered, cmds, TuiRest>> /\ UNCHANGED cfgVars

Server_Up ==
    /\ ~rendered.panic
    /\ ~reachable
    /\ reachable' = TRUE
    /\ UNCHANGED <<tui, lines, rendered, cmds, TuiRest>> /\ UNCHANGED cfgVars

InitTui == InitServing(3) /\ InitReqIdle

NextTui ==
    \/ \E height \in WindowHeights : WindowSizeMsg(height)
    \/ \E key \in ScrollKeys \cup TabKeys : KeyMsg(key)
    \/ KeyMsg_Refresh
    \/ \E n \in LineCounts : FilterChange(n)
    \/ Connect_Done
    \/ RefreshMsg
    \/ \E tab \in Tabs, n \in LineCounts : Fetch_Done(tab, n)
    \/ Server_Down
    \/ Server_Up

SpecTui == InitTui /\ [][NextTui]_vars

\* C38: for every tab, after any sequence of keys, resizes, data refreshes
\* and filter changes, the scroll position p used by a rendering satisfies
\* 0 <= p <= max(0, content height - viewport height), so that the rendering
\* never slices with start > end or beyond the lines.
C38_ScrollPositionInRange ==
    rendered.done =>
        /\ ~rendered.panic
        /\ 0 <= rendered.p
        /\ rendered.p <= Clamp0(rendered.len - rendered.viewport)

\* C39: the client retries its connection: a client that is not connected
\* has a connection attempt running or scheduled, so that it connects once
\* the server can be reached.
C39_DisconnectedClientRetries ==
    ~tui.connected => "connect" \in cmds

====
